---- MODULE Spec2Model ----
(***************************************************************************)
(* Verification model of the BaseBall wager escrow (contracts/BaseBall.sol).*)
(* The contract's storage, the ether balances of the accounts that call it *)
(* and the block timestamp are the state; every external function is one   *)
(* atomic transaction that either commits or reverts as a whole.  A        *)
(* reverted transaction leaves no trace on chain: its revert message is the*)
(* result of the function, which the properties evaluate in every          *)
(* reachable state.                                                        *)
(***************************************************************************)
EXTENDS Integers, Sequences, FiniteSets, TLC

\* ------------------------------------------------------------------ bounds
NumUsers == 3
MaxGames == 2
MaxTime == 2
StartBalance == 76
NumSockets == 3
MaxFailures == 6
MaxPolls == 6

\* --------------------------------------------------------- program constants
FEE_PERCENTAGE == 100
BasisPoints == 10000
SevenDays == 604800

\* ------------------------------------------------------------ value domains
ZeroAddress == 0
Users == 1..NumUsers
Address == 0..NumUsers
\* The ids calls name: those createGame has allocated and, while fewer than
\* MaxGames matches exist, ids it has not allocated yet.
GameIds == 1..MaxGames

\* The one account that is a contract wallet, whose receive function may
\* revert; the other accounts are externally owned and always accept ether.
Contracts == {NumUsers}

\* msg.value of a call: nothing, a wager whose fee rounds to 0, and a wager
\* whose pot of 150 gives a fee of floor(1.5) = 1
Values == {0, 1, 75}
Difficulties == {0, 5, 11}
Durations == {0, 1, SevenDays + 1}

VARIABLES
    games,            \* mapping(uint256 => Game)
    playerStats,      \* mapping(address => PlayerStats)
    playerGames,      \* mapping(address => uint256[])
    gameCounter,      \* uint256
    feeWallet,        \* address
    owner,            \* address
    balance,          \* ether balance of every account
    contractBalance,  \* address(this).balance
    now,              \* block.timestamp
    refuses,          \* the accounts whose code reverts on receiving ether
    tally,            \* per game id, how many joins and completes have committed
    activeGames,      \* server: Map gameId -> {players, ball, scores}
    rooms,            \* server: socket.io room "game-<gameId>" -> its sockets
    sockets,          \* server: the connected sockets
    outbox,           \* server: what the last handler run emitted, to whom
    component,        \* client: the state and refs of one Game component
    timers,           \* client: the setTimeout callbacks waiting to run, in order
    polls,            \* client: the reads the poll interval has made
    calls,            \* client: completeGame transactions the component has sent
    development       \* client: the build invokes state updaters twice

ledgerVars == <<games, playerStats, playerGames, gameCounter, feeWallet, owner,
                balance, contractBalance>>
chainVars == <<ledgerVars, now, refuses, tally>>
serverVars == <<activeGames, rooms, sockets, outbox>>
clientVars == <<component, timers, polls, calls, development>>
vars == <<games, playerStats, playerGames, gameCounter, feeWallet, owner,
          balance, contractBalance, now, refuses, tally,
          activeGames, rooms, sockets, outbox,
          component, timers, polls, calls, development>>

\* The zero value of struct Game: what games[id] reads for an id never written.
NoGame ==
    [host |-> ZeroAddress, player |-> ZeroAddress, wager |-> 0, difficulty |-> 0,
     status |-> "Pending", gameId |-> 0, createdAt |-> 0, expiresAt |-> 0]

NoStats == [wins |-> 0, totalWinnings |-> 0, gamesPlayed |-> 0]

\* The chain state a transaction runs on: the contract storage, the balances
\* and which accounts refuse ether.
Ledger ==
    [games |-> games, playerStats |-> playerStats, playerGames |-> playerGames,
     gameCounter |-> gameCounter, feeWallet |-> feeWallet, owner |-> owner,
     balance |-> balance, contractBalance |-> contractBalance,
     refuses |-> refuses]

\* ------------------------------------------------------- EVM call semantics
\* msg.value moves from the sender to the contract before the body runs.
Pay(s, sender, value) ==
    [s EXCEPT !.balance[sender] = @ - value, !.contractBalance = @ + value]

\* payable(to).call{value: amount}(""): fails when the recipient's code
\* reverts or the contract does not hold the amount.
Send(s, to, amount) ==
    LET success == to \notin s.refuses /\ s.contractBalance >= amount
    IN  [success |-> success,
         state |-> IF success
                   THEN [s EXCEPT !.contractBalance = @ - amount,
                                  !.balance[to] = @ + amount]
                   ELSE s]

\* A failed require reverts the transaction: storage and balances are those
\* before the call (pre), whatever the body had written so far (partial).
\* Mutant: a failed transfer is not reverted; what the body wrote stays.
Rollback_KeepPartial(pre, partial) == partial

Rollback(pre, partial) == pre

Fail(pre, partial, msg) ==
    [state |-> Rollback(pre, partial), result |-> msg, transfers |-> <<>>, ret |-> 0]

Success(post, transfers, ret) ==
    [state |-> post, result |-> "ok", transfers |-> transfers, ret |-> ret]

Transfer(to, amount) == [to |-> to, amount |-> amount]

\* ------------------------------------------------------- contract functions
\* Each function maps the ledger s before the transaction, the call data and
\* the environment's answers to [state, result, transfers, ret]; result is
\* "ok" or the message of the require that failed.

\* Mutant: the 7-day cap of the duration is missing.
createGameRequire_NoMax(value, difficulty, expirationDuration) ==
    IF ~(value > 0) THEN "Wager must be greater than 0"
    ELSE IF ~(difficulty >= 1 /\ difficulty <= 10)
        THEN "Difficulty must be between 1 and 10"
    ELSE IF ~(expirationDuration > 0)
        THEN "Expiration duration must be greater than 0"
    ELSE "ok"

createGameRequire(value, difficulty, expirationDuration) ==
    IF ~(value > 0) THEN "Wager must be greater than 0"
    ELSE IF ~(difficulty >= 1 /\ difficulty <= 10)
        THEN "Difficulty must be between 1 and 10"
    ELSE IF ~(expirationDuration > 0)
        THEN "Expiration duration must be greater than 0"
    ELSE IF ~(expirationDuration <= SevenDays)
        THEN "Expiration duration cannot exceed 7 days"
    ELSE "ok"

\* Mutant: the record carries the counter read before the increment.
createGame_StaleId(s, sender, value, difficulty, expirationDuration, timestamp) ==
    LET err == createGameRequire(value, difficulty, expirationDuration)
        paid == Pay(s, sender, value)
        gameId == s.gameCounter + 1
        game == [host |-> sender, player |-> ZeroAddress, wager |-> value,
                 difficulty |-> difficulty, status |-> "Pending",
                 gameId |-> s.gameCounter, createdAt |-> timestamp,
                 expiresAt |-> timestamp + expirationDuration]
        post == [paid EXCEPT !.gameCounter = gameId,
                             !.games[gameId] = game,
                             !.playerGames[sender] = Append(@, gameId)]
    IN  IF err # "ok" THEN Fail(s, paid, err) ELSE Success(post, <<>>, gameId)

createGame(s, sender, value, difficulty, expirationDuration, timestamp) ==
    LET err == createGameRequire(value, difficulty, expirationDuration)
        paid == Pay(s, sender, value)
        gameId == s.gameCounter + 1
        game == [host |-> sender, player |-> ZeroAddress, wager |-> value,
                 difficulty |-> difficulty, status |-> "Pending", gameId |-> gameId,
                 createdAt |-> timestamp,
                 expiresAt |-> timestamp + expirationDuration]
        post == [paid EXCEPT !.gameCounter = gameId,
                             !.games[gameId] = game,
                             !.playerGames[sender] = Append(@, gameId)]
    IN  IF err # "ok" THEN Fail(s, paid, err) ELSE Success(post, <<>>, gameId)

\* Mutant: the status guard is missing.
joinGameRequire_NoStatus(game, sender, value, timestamp) ==
    IF ~(game.host # sender) THEN "Cannot join your own game"
    ELSE IF ~(value = game.wager) THEN "Wager must match"
    ELSE IF ~(timestamp < game.expiresAt) THEN "Game has expired"
    ELSE "ok"

\* Mutant: the deadline guard is missing.
joinGameRequire_NoExpiry(game, sender, value, timestamp) ==
    IF ~(game.status = "Pending") THEN "Game not available"
    ELSE IF ~(game.host # sender) THEN "Cannot join your own game"
    ELSE IF ~(value = game.wager) THEN "Wager must match"
    ELSE "ok"

\* Mutant: the host may join its own game.
joinGameRequire_OwnGame(game, sender, value, timestamp) ==
    IF ~(game.status = "Pending") THEN "Game not available"
    ELSE IF ~(value = game.wager) THEN "Wager must match"
    ELSE IF ~(timestamp < game.expiresAt) THEN "Game has expired"
    ELSE "ok"

\* Mutant: the wager guard is missing.
joinGameRequire_NoWager(game, sender, value, timestamp) ==
    IF ~(game.status = "Pending") THEN "Game not available"
    ELSE IF ~(game.host # sender) THEN "Cannot join your own game"
    ELSE IF ~(timestamp < game.expiresAt) THEN "Game has expired"
    ELSE "ok"

joinGameRequire(game, sender, value, timestamp) ==
    IF ~(game.status = "Pending") THEN "Game not available"
    ELSE IF ~(game.host # sender) THEN "Cannot join your own game"
    ELSE IF ~(value = game.wager) THEN "Wager must match"
    ELSE IF ~(timestamp < game.expiresAt) THEN "Game has expired"
    ELSE "ok"

\* Mutant: the joiner is written over the host.
joinGame_OverwritesHost(s, sender, value, gameId, timestamp) ==
    LET game == s.games[gameId]
        err == joinGameRequire(game, sender, value, timestamp)
        paid == Pay(s, sender, value)
        post == [paid EXCEPT !.games[gameId].host = sender,
                             !.games[gameId].player = sender,
                             !.games[gameId].status = "Active",
                             !.playerGames[sender] = Append(@, gameId),
                             !.playerStats[sender].gamesPlayed = @ + 1]
    IN  IF err # "ok" THEN Fail(s, paid, err) ELSE Success(post, <<>>, 0)

joinGame(s, sender, value, gameId, timestamp) ==
    LET game == s.games[gameId]
        err == joinGameRequire(game, sender, value, timestamp)
        paid == Pay(s, sender, value)
        post == [paid EXCEPT !.games[gameId].player = sender,
                             !.games[gameId].status = "Active",
                             !.playerGames[sender] = Append(@, gameId),
                             !.playerStats[sender].gamesPlayed = @ + 1]
    IN  IF err # "ok" THEN Fail(s, paid, err) ELSE Success(post, <<>>, 0)

\* Mutant: the status guard is missing.
cancelGameRequire_NoStatus(game, sender) ==
    IF ~(game.host = sender) THEN "Only host can cancel"
    ELSE "ok"

\* Mutant: the host guard is missing.
cancelGameRequire_NoHost(game, sender) ==
    IF ~(game.status = "Pending") THEN "Game not cancellable"
    ELSE "ok"

cancelGameRequire(game, sender) ==
    IF ~(game.status = "Pending") THEN "Game not cancellable"
    ELSE IF ~(game.host = sender) THEN "Only host can cancel"
    ELSE "ok"

\* The refund both cancel paths send: to the host, the host's wager.
Refund(game) == Transfer(game.host, game.wager)

cancelGame(s, sender, gameId) ==
    LET game == s.games[gameId]
        err == cancelGameRequire(game, sender)
        marked == [s EXCEPT !.games[gameId].status = "Cancelled"]
        refund == Refund(game)
        sent == Send(marked, refund.to, refund.amount)
    IN  IF err # "ok" THEN Fail(s, s, err)
        ELSE IF ~sent.success THEN Fail(s, sent.state, "Refund failed")
        ELSE Success(sent.state, <<refund>>, 0)

\* Mutant: the status guard is missing.
cancelExpiredGameRequire_NoStatus(game, timestamp) ==
    IF ~(timestamp >= game.expiresAt) THEN "Game has not expired yet"
    ELSE "ok"

\* Mutant: the deadline itself does not count as expired.
cancelExpiredGameRequire_Strict(game, timestamp) ==
    IF ~(game.status = "Pending") THEN "Game not pending"
    ELSE IF ~(timestamp > game.expiresAt) THEN "Game has not expired yet"
    ELSE "ok"

cancelExpiredGameRequire(game, timestamp) ==
    IF ~(game.status = "Pending") THEN "Game not pending"
    ELSE IF ~(timestamp >= game.expiresAt) THEN "Game has not expired yet"
    ELSE "ok"

\* Mutant: only the host may cancel an expired game.
cancelExpiredGame_HostOnly(s, sender, gameId, timestamp) ==
    LET game == s.games[gameId]
        err == cancelExpiredGameRequire(game, timestamp)
        marked == [s EXCEPT !.games[gameId].status = "Cancelled"]
        refund == Refund(game)
        sent == Send(marked, refund.to, refund.amount)
    IN  IF err # "ok" THEN Fail(s, s, err)
        ELSE IF ~(game.host = sender) THEN Fail(s, s, "Only host can cancel")
        ELSE IF ~sent.success THEN Fail(s, sent.state, "Refund failed")
        ELSE Success(sent.state, <<refund>>, 0)

cancelExpiredGame(s, sender, gameId, timestamp) ==
    LET game == s.games[gameId]
        err == cancelExpiredGameRequire(game, timestamp)
        marked == [s EXCEPT !.games[gameId].status = "Cancelled"]
        refund == Refund(game)
        sent == Send(marked, refund.to, refund.amount)
    IN  IF err # "ok" THEN Fail(s, s, err)
        ELSE IF ~sent.success THEN Fail(s, sent.state, "Refund failed")
        ELSE Success(sent.state, <<refund>>, 0)

\* Mutant: the status guard is missing.
completeGameRequire_NoStatus(game, sender, winner) ==
    IF ~(sender = game.host \/ sender = game.player)
        THEN "Only game participants can complete game"
    ELSE IF ~(winner = game.host \/ winner = game.player)
        THEN "Winner must be a player"
    ELSE "ok"

\* Mutant: the caller is not checked.
completeGameRequire_NoCaller(game, sender, winner) ==
    IF ~(game.status = "Active") THEN "Game not active"
    ELSE IF ~(winner = game.host \/ winner = game.player)
        THEN "Winner must be a player"
    ELSE "ok"

completeGameRequire(game, sender, winner) ==
    IF ~(game.status = "Active") THEN "Game not active"
    ELSE IF ~(sender = game.host \/ sender = game.player)
        THEN "Only game participants can complete game"
    ELSE IF ~(winner = game.host \/ winner = game.player)
        THEN "Winner must be a player"
    ELSE "ok"

\* Mutant: the pot counts one wager only.
TotalPot_OneWager(game) == game.wager

TotalPot(game) == game.wager * 2

\* Mutant: the division comes before the multiplication.
Fee_DivideFirst(totalPot) == (totalPot \div BasisPoints) * FEE_PERCENTAGE

Fee(totalPot) == (totalPot * FEE_PERCENTAGE) \div BasisPoints

completeGame(s, sender, gameId, winner) ==
    LET game == s.games[gameId]
        err == completeGameRequire(game, sender, winner)
        totalPot == TotalPot(game)
        fee == Fee(totalPot)
        winnings == totalPot - fee
        counted == IF game.host = winner THEN game.host ELSE game.player
        stats1 == [s.playerStats EXCEPT ![winner].wins = @ + 1,
                                        ![winner].totalWinnings = @ + winnings]
        stats2 == [stats1 EXCEPT ![counted].gamesPlayed = @ + 1]
        marked == [s EXCEPT !.games[gameId].status = "Completed",
                            !.playerStats = stats2]
        feeSent == IF fee > 0
                   THEN Send(marked, s.feeWallet, fee)
                   ELSE [success |-> TRUE, state |-> marked]
        winSent == Send(feeSent.state, winner, winnings)
        transfers == (IF fee > 0 THEN <<Transfer(s.feeWallet, fee)>> ELSE <<>>)
                     \o <<Transfer(winner, winnings)>>
    IN  IF err # "ok" THEN Fail(s, s, err)
        ELSE IF ~feeSent.success THEN Fail(s, feeSent.state, "Fee transfer failed")
        ELSE IF ~winSent.success
            THEN Fail(s, winSent.state, "Winnings transfer failed")
        ELSE Success(winSent.state, transfers, 0)

\* Mutant: any caller may set the fee wallet.
setFeeWallet_AnyCaller(s, sender, newFeeWallet) ==
    IF ~(newFeeWallet # ZeroAddress) THEN Fail(s, s, "Invalid address")
    ELSE Success([s EXCEPT !.feeWallet = newFeeWallet], <<>>, 0)

setFeeWallet(s, sender, newFeeWallet) ==
    IF ~(sender = s.owner) THEN Fail(s, s, "Not owner")
    ELSE IF ~(newFeeWallet # ZeroAddress) THEN Fail(s, s, "Invalid address")
    ELSE Success([s EXCEPT !.feeWallet = newFeeWallet], <<>>, 0)

\* -------------------------------------------------------------- re-entrancy
\* A recipient that is a contract runs code when it is sent ether.  Its code
\* makes one call back into BaseBall (the hook) as msg.sender, and either
\* hands a revert of that call on, failing the transfer, or catches it.
NoHook == [fn |-> "none", gameId |-> 0, winner |-> 0, value |-> 0, catches |-> TRUE]

Hooks ==
    {NoHook}
    \cup [fn : {"joinGame"}, gameId : GameIds, winner : {0}, value : Values,
          catches : BOOLEAN]
    \cup [fn : {"cancelGame", "cancelExpiredGame"}, gameId : GameIds,
          winner : {0}, value : {0}, catches : BOOLEAN]
    \cup [fn : {"completeGame"}, gameId : GameIds, winner : Users, value : {0},
          catches : BOOLEAN]

\* The hook run by caller on the ledger s.
Call(s, caller, hook, timestamp) ==
    IF hook.fn = "joinGame"
    THEN IF s.balance[caller] >= hook.value
         THEN joinGame(s, caller, hook.value, hook.gameId, timestamp)
         ELSE Fail(s, s, "insufficient funds")
    ELSE IF hook.fn = "cancelGame" THEN cancelGame(s, caller, hook.gameId)
    ELSE IF hook.fn = "cancelExpiredGame"
    THEN cancelExpiredGame(s, caller, hook.gameId, timestamp)
    ELSE completeGame(s, caller, hook.gameId, hook.winner)

\* payable(to).call{value: amount}("") when the contract wallets run hook:
\* the ether moves, then the recipient's code runs on the ledger as the
\* function has written it so far.  nested is what the hook returned.
SendTo(s, to, amount, hook, timestamp) ==
    LET plain == Send(s, to, amount)
        inner == Call(plain.state, to, hook, timestamp)
    IN  IF ~plain.success \/ to \notin Contracts \/ hook.fn = "none"
        THEN [success |-> plain.success, state |-> plain.state, nested |-> <<>>]
        ELSE IF inner.result = "ok"
        THEN [success |-> TRUE, state |-> inner.state, nested |-> <<"ok">>]
        ELSE IF hook.catches
        THEN [success |-> TRUE, state |-> plain.state,
              nested |-> <<inner.result>>]
        ELSE [success |-> FALSE, state |-> s, nested |-> <<inner.result>>]

Outcome(r, nested) ==
    [state |-> r.state, result |-> r.result, transfers |-> r.transfers,
     nested |-> nested]

\* Mutant: the refund is sent before the status is written.
cancelGameWith_SendFirst(s, sender, gameId, hook, timestamp) ==
    LET game == s.games[gameId]
        err == cancelGameRequire(game, sender)
        refund == Refund(game)
        sent == SendTo(s, refund.to, refund.amount, hook, timestamp)
        marked == [sent.state EXCEPT !.games[gameId].status = "Cancelled"]
    IN  IF err # "ok" THEN Outcome(Fail(s, s, err), <<>>)
        ELSE IF ~sent.success
        THEN Outcome(Fail(s, sent.state, "Refund failed"), sent.nested)
        ELSE Outcome(Success(marked, <<refund>>, 0), sent.nested)

\* cancelGame when the contract wallets run hook.
cancelGameWith(s, sender, gameId, hook, timestamp) ==
    LET game == s.games[gameId]
        err == cancelGameRequire(game, sender)
        marked == [s EXCEPT !.games[gameId].status = "Cancelled"]
        refund == Refund(game)
        sent == SendTo(marked, refund.to, refund.amount, hook, timestamp)
    IN  IF err # "ok" THEN Outcome(Fail(s, s, err), <<>>)
        ELSE IF ~sent.success
        THEN Outcome(Fail(s, sent.state, "Refund failed"), sent.nested)
        ELSE Outcome(Success(sent.state, <<refund>>, 0), sent.nested)

\* cancelExpiredGame when the contract wallets run hook.
cancelExpiredGameWith(s, sender, gameId, hook, timestamp) ==
    LET game == s.games[gameId]
        err == cancelExpiredGameRequire(game, timestamp)
        marked == [s EXCEPT !.games[gameId].status = "Cancelled"]
        refund == Refund(game)
        sent == SendTo(marked, refund.to, refund.amount, hook, timestamp)
    IN  IF err # "ok" THEN Outcome(Fail(s, s, err), <<>>)
        ELSE IF ~sent.success
        THEN Outcome(Fail(s, sent.state, "Refund failed"), sent.nested)
        ELSE Outcome(Success(sent.state, <<refund>>, 0), sent.nested)

\* completeGame when the contract wallets run hook, on the fee transfer and
\* on the winnings transfer.
completeGameWith(s, sender, gameId, winner, hook, timestamp) ==
    LET game == s.games[gameId]
        err == completeGameRequire(game, sender, winner)
        totalPot == TotalPot(game)
        fee == Fee(totalPot)
        winnings == totalPot - fee
        counted == IF game.host = winner THEN game.host ELSE game.player
        stats1 == [s.playerStats EXCEPT ![winner].wins = @ + 1,
                                        ![winner].totalWinnings = @ + winnings]
        stats2 == [stats1 EXCEPT ![counted].gamesPlayed = @ + 1]
        marked == [s EXCEPT !.games[gameId].status = "Completed",
                            !.playerStats = stats2]
        feeSent == IF fee > 0
                   THEN SendTo(marked, s.feeWallet, fee, hook, timestamp)
                   ELSE [success |-> TRUE, state |-> marked, nested |-> <<>>]
        winSent == SendTo(feeSent.state, winner, winnings, hook, timestamp)
        transfers == (IF fee > 0 THEN <<Transfer(s.feeWallet, fee)>> ELSE <<>>)
                     \o <<Transfer(winner, winnings)>>
    IN  IF err # "ok" THEN Outcome(Fail(s, s, err), <<>>)
        ELSE IF ~feeSent.success
        THEN Outcome(Fail(s, feeSent.state, "Fee transfer failed"), feeSent.nested)
        ELSE IF ~winSent.success
        THEN Outcome(Fail(s, winSent.state, "Winnings transfer failed"),
                     feeSent.nested \o winSent.nested)
        ELSE Outcome(Success(winSent.state, transfers, 0),
                     feeSent.nested \o winSent.nested)

\* The view function: the stored record, which for an id never written is
\* the zero value of the struct.
getGame(s, gameId) == s.games[gameId]

\* ------------------------------------------------------------ client reads
\* What a client's getGame resolves to: the record, or the rejection
\* "Game <id> does not exist".
Found(game) == [found |-> TRUE, game |-> game]
DoesNotExist == [found |-> FALSE, game |-> NoGame]

\* lib/contract.ts: the contract's answer is returned as it is.
lib_getGame(s, gameId) == Found(getGame(s, gameId))

\* The client library that validates the answer: a record with gameId 0 or
\* the zero host is reported as not existing.
client_getGame(s, gameId) ==
    LET game == getGame(s, gameId)
    IN  IF game.gameId = 0 \/ game.host = ZeroAddress
        THEN DoesNotExist
        ELSE Found(game)

\* The state of the Game component that handleCompleteGame reads and
\* writes, for a client playing gameId with the wallet signer: no gameId or
\* signer is 0, no winner is 0.
GameComponent(signer, gameId) ==
    [practiceMode |-> FALSE, gameId |-> gameId, signer |-> signer,
     completing |-> FALSE, gameOver |-> FALSE, winner |-> 0]

\* Game.tsx handleCompleteGame on the component state c and the ledger s:
\* the component state after it, the ledger after its transaction, and the
\* text of the alert it shows ("" when it shows none).  A reverted
\* completeGame throws; the catch alerts the error's message and resets
\* gameOver and completing.
handleCompleteGame(c, s, winnerAddress) ==
    IF c.practiceMode
    THEN [client |-> [c EXCEPT !.gameOver = TRUE,
                               !.winner = IF winnerAddress = "left"
                                          THEN "You" ELSE "AI Opponent"],
          state |-> s, alert |-> ""]
    ELSE IF c.gameId = 0 \/ c.signer = 0 \/ c.completing \/ c.gameOver
    THEN [client |-> c, state |-> s, alert |-> ""]
    ELSE LET r == completeGame(s, c.signer, c.gameId, winnerAddress)
         IN  IF r.result = "ok"
             THEN [client |-> [c EXCEPT !.completing = TRUE, !.gameOver = TRUE,
                                        !.winner = winnerAddress],
                   state |-> r.state, alert |-> ""]
             ELSE [client |-> [c EXCEPT !.completing = FALSE, !.gameOver = FALSE],
                   state |-> r.state, alert |-> r.result]

\* ------------------------------------------------------ coordinator server
\* server/index.js.  A handler maps the server state k (the activeGames map,
\* the socket.io rooms, the connected sockets), the socket the event came
\* from and the event's data to the state after it and what it emitted.
Sockets == 1..NumSockets

\* The y of a paddle, the ball and the scores are opaque to the server.
Payloads == {"a"}

Server ==
    [activeGames |-> activeGames, rooms |-> rooms, sockets |-> sockets]

NewGame ==
    [players |-> <<>>, ball |-> "null", scores |-> [left |-> 0, right |-> 0]]

\* One emit call: the sockets it reaches, the event and its payload.
Emit(to, event, payload) == [to |-> to, event |-> event, payload |-> payload]

\* io.to(room): every socket in the room.
IoTo(k, gameId) == k.rooms[gameId]

\* socket.to(room): every socket in the room but the sender.
SocketTo(k, socket, gameId) == k.rooms[gameId] \ {socket}

\* socket.broadcast: every connected socket but the sender.
Broadcast(k, socket) == k.sockets \ {socket}

Range(seq) == {seq[i] : i \in 1..Len(seq)}

\* players.indexOf(x) followed by players.splice(index, 1): the first
\* occurrence of x is removed.
RECURSIVE Splice(_, _)
Splice(players, x) ==
    IF players = <<>> THEN <<>>
    ELSE IF Head(players) = x THEN Tail(players)
    ELSE <<Head(players)>> \o Splice(Tail(players), x)

\* activeGames.set(gameId, game)
MapSet(map, gameId, game) ==
    [id \in DOMAIN map \cup {gameId} |-> IF id = gameId THEN game ELSE map[id]]

\* Mutant: the room takes any number of players.
on_join_game_NoCap(k, socket, gameId) ==
    LET joined == [k EXCEPT !.rooms[gameId] = @ \cup {socket}]
        created == IF gameId \in DOMAIN k.activeGames
                   THEN k.activeGames
                   ELSE MapSet(k.activeGames, gameId, NewGame)
        players == Append(created[gameId].players, socket)
    IN  [state |-> [joined EXCEPT
                        !.activeGames = [created EXCEPT ![gameId].players = players]],
         emits |-> <<Emit({socket}, "game-joined",
                          [playerNumber |-> Len(players)]),
                     Emit(IoTo(joined, gameId), "player-count", Len(players))>>]

\* Mutant: the reply carries the player count read before the push.
on_join_game_StaleCount(k, socket, gameId) ==
    LET joined == [k EXCEPT !.rooms[gameId] = @ \cup {socket}]
        created == IF gameId \in DOMAIN k.activeGames
                   THEN k.activeGames
                   ELSE MapSet(k.activeGames, gameId, NewGame)
        game == created[gameId]
        players == Append(game.players, socket)
    IN  IF Len(game.players) < 2
        THEN [state |-> [joined EXCEPT
                            !.activeGames = [created EXCEPT ![gameId].players = players]],
              emits |-> <<Emit({socket}, "game-joined",
                               [playerNumber |-> Len(game.players)]),
                          Emit(IoTo(joined, gameId), "player-count", Len(players))>>]
        ELSE [state |-> [joined EXCEPT !.activeGames = created], emits |-> <<>>]

\* socket.on('join-game')
on_join_game(k, socket, gameId) ==
    LET joined == [k EXCEPT !.rooms[gameId] = @ \cup {socket}]
        created == IF gameId \in DOMAIN k.activeGames
                   THEN k.activeGames
                   ELSE MapSet(k.activeGames, gameId, NewGame)
        game == created[gameId]
        players == Append(game.players, socket)
    IN  IF Len(game.players) < 2
        THEN [state |-> [joined EXCEPT
                            !.activeGames = [created EXCEPT ![gameId].players = players]],
              emits |-> <<Emit({socket}, "game-joined",
                               [playerNumber |-> Len(players)]),
                          Emit(IoTo(joined, gameId), "player-count", Len(players))>>]
        ELSE [state |-> [joined EXCEPT !.activeGames = created], emits |-> <<>>]

\* socket.on('game-created')
on_game_created(k, socket) ==
    [state |-> k, emits |-> <<Emit(Broadcast(k, socket), "game-created", "none")>>]

\* socket.on('game-joined')
on_game_joined(k, socket, data) ==
    [state |-> k,
     emits |-> <<Emit(Broadcast(k, socket), "game-joined", data)>>
               \o (IF data.host # [address |-> ZeroAddress, form |-> "undefined"]
                   THEN <<Emit(Broadcast(k, socket), "player-joined-game",
                               [gameId |-> data.gameId, host |-> data.host,
                                player |-> data.player])>>
                   ELSE <<>>)]

\* Mutant: the announcement goes to every connected socket, the sender too.
on_game_cancelled_Echo(k, socket, data) ==
    [state |-> k, emits |-> <<Emit(k.sockets, "game-cancelled", data)>>]

\* socket.on('game-cancelled')
on_game_cancelled(k, socket, data) ==
    [state |-> k, emits |-> <<Emit(Broadcast(k, socket), "game-cancelled", data)>>]

\* Mutant: the paddle position is sent to the whole room, the sender too.
on_paddle_move_Echo(k, socket, data) ==
    [state |-> k,
     emits |-> <<Emit(IoTo(k, data.gameId), "opponent-paddle", [y |-> data.y])>>]

\* socket.on('paddle-move')
on_paddle_move(k, socket, data) ==
    [state |-> k,
     emits |-> <<Emit(SocketTo(k, socket, data.gameId), "opponent-paddle",
                      [y |-> data.y])>>]

\* socket.on('ball-update')
on_ball_update(k, socket, data) ==
    [state |-> k,
     emits |-> <<Emit(SocketTo(k, socket, data.gameId), "ball-sync", data.ball)>>]

\* socket.on('score-update')
on_score_update(k, socket, data) ==
    [state |-> k,
     emits |-> <<Emit(IoTo(k, data.gameId), "score-sync", data.scores)>>]

\* socket.on('disconnect'): socket.io has taken the socket out of its rooms;
\* the handler then removes it from the players of every game and deletes
\* the games left without players.
on_disconnect(k, socket) ==
    LET left == [k EXCEPT !.rooms = [g \in DOMAIN @ |-> @[g] \ {socket}],
                          !.sockets = @ \ {socket}]
        spliced == [g \in DOMAIN k.activeGames |->
                        IF socket \in Range(k.activeGames[g].players)
                        THEN [k.activeGames[g] EXCEPT !.players = Splice(@, socket)]
                        ELSE k.activeGames[g]]
        emptied == {g \in DOMAIN k.activeGames :
                        /\ socket \in Range(k.activeGames[g].players)
                        /\ spliced[g].players = <<>>}
    IN  [state |-> [left EXCEPT
                        !.activeGames = [g \in DOMAIN spliced \ emptied |-> spliced[g]]],
         emits |-> <<>>]

\* ---------------------------------------------------------- Game component
\* An address as text: ethers gives addresses in checksum case, a wallet may
\* give them in lower case.  The zero address has no letters.
Forms == {"checksum", "lower"}

Text(address, form) ==
    [address |-> address,
     form |-> IF address = ZeroAddress THEN "lower" ELSE form]

toLowerCase(text) == [text EXCEPT !.form = "lower"]

\* The text of an address in a record read from the contract.
Checksum(address) == Text(address, "checksum")

ZeroText == Text(ZeroAddress, "lower")

Retries == 5
WinScore == 10

\* next.config.js: in a development build React invokes every state updater
\* twice.
reactStrictMode == TRUE

\* gameData: null, or the record of the last successful load.
Null == <<>>

\* data.host of an event whose sender gave none.
Undefined == [address |-> ZeroAddress, form |-> "undefined"]

\* The Game component as first rendered for the wallet `account` (signer is
\* its address): practiceMode with no gameId, or a wagered match's gameId.
\* The winner state holds an address after a wagered match and a label
\* after practice: the label is kept in practiceWinner.
Game(gameId, practiceMode, account) ==
    [practiceMode |-> practiceMode, gameId |-> gameId,
     account |-> account, signer |-> account.address,
     mounted |-> FALSE,
     gameData |-> Null, loading |-> TRUE, gameStarted |-> FALSE,
     gameOver |-> FALSE, winner |-> 0, practiceWinner |-> "",
     score |-> [left |-> 0, right |-> 0],
     completing |-> FALSE, scoredThisFrame |-> FALSE]

isHost(data, account) ==
    toLowerCase(Checksum(data.host)) = toLowerCase(account)

isPlayer(data, account) ==
    toLowerCase(Checksum(data.player)) = toLowerCase(account)

hasPlayer(data) == Checksum(data.player) # ZeroText

\* loadGame's retry loop when the next `failures` reads throw: whether a
\* read succeeded, the reads made and the waits between them, in ms.
RECURSIVE RetryLoop(_, _, _, _)
RetryLoop(retries, failures, reads, waits) ==
    IF retries = 0 THEN [ok |-> FALSE, reads |-> reads, waits |-> waits]
    ELSE IF failures = 0 THEN [ok |-> TRUE, reads |-> reads + 1, waits |-> waits]
    ELSE LET left == retries - 1
         IN  RetryLoop(left, failures - 1, reads + 1,
                       IF left > 0 THEN Append(waits, (6 - left) * 500) ELSE waits)

initializeGame(c) == [c EXCEPT !.gameStarted = TRUE]

\* Mutant: an Active match starts for any account.
loadGame_AnyAccount(c, s, failures) ==
    IF c.gameId = 0 \/ c.signer = 0
    THEN [c EXCEPT !.loading = FALSE]
    ELSE LET read == client_getGame(s, c.gameId)
             loop == RetryLoop(Retries, IF read.found THEN failures ELSE Retries,
                               0, <<>>)
             data == read.game
             loaded == [c EXCEPT !.gameData = <<data>>, !.loading = FALSE]
         IN  IF ~loop.ok
             THEN [c EXCEPT !.gameData = Null, !.loading = FALSE]
             ELSE IF data.status = "Active" /\ hasPlayer(data)
             THEN initializeGame(loaded)
             ELSE loaded

\* Mutant: the retry loop never runs out of retries.
loadGame_NoGiveUp(c, s, failures) ==
    IF c.gameId = 0 \/ c.signer = 0
    THEN [c EXCEPT !.loading = FALSE]
    ELSE LET read == client_getGame(s, c.gameId)
             data == read.game
             loaded == [c EXCEPT !.gameData = <<data>>, !.loading = FALSE]
         IN  IF ~read.found \/ failures >= Retries
             THEN c
             ELSE IF data.status = "Active"
                     /\ (isHost(data, c.account) \/ isPlayer(data, c.account))
                     /\ hasPlayer(data)
             THEN initializeGame(loaded)
             ELSE loaded

\* loadGame on the component c when the ledger is s and the next `failures`
\* reads throw; a match that does not exist makes every read throw.
loadGame(c, s, failures) ==
    IF c.gameId = 0 \/ c.signer = 0
    THEN [c EXCEPT !.loading = FALSE]
    ELSE LET read == client_getGame(s, c.gameId)
             loop == RetryLoop(Retries, IF read.found THEN failures ELSE Retries,
                               0, <<>>)
             data == read.game
             loaded == [c EXCEPT !.gameData = <<data>>, !.loading = FALSE]
         IN  IF ~loop.ok
             THEN [c EXCEPT !.gameData = Null, !.loading = FALSE]
             ELSE IF data.status = "Active"
                     /\ (isHost(data, c.account) \/ isPlayer(data, c.account))
                     /\ hasPlayer(data)
             THEN initializeGame(loaded)
             ELSE loaded

\* The effect run after the first render.
mountEffect(c, s, failures) ==
    IF c.practiceMode THEN [c EXCEPT !.mounted = TRUE, !.loading = FALSE]
    ELSE loadGame([c EXCEPT !.mounted = TRUE], s, failures)

\* The poll effect keeps its interval while this holds.
Polling(c) ==
    c.mounted /\ c.gameId # 0 /\ c.signer # 0 /\ ~c.practiceMode /\ ~c.gameStarted

\* Mutant: the interval reads the match and never reloads.
pollInterval_NoReload(c, s, throws, failures) == c

\* One tick of the poll interval: a read that throws is logged and nothing
\* else; a read of an Active match reloads the game.
pollInterval(c, s, throws, failures) ==
    LET read == client_getGame(s, c.gameId)
        updatedGame == read.game
    IN  IF throws \/ ~read.found THEN c
        ELSE IF updatedGame.status = "Active" /\ hasPlayer(updatedGame)
                /\ ~c.gameStarted
        THEN loadGame(c, s, failures)
        ELSE IF c.gameData = Null /\ updatedGame.status = "Active"
        THEN loadGame(c, s, failures)
        ELSE c

\* What the component renders.
View(c) ==
    LET data == c.gameData[1]
        board == IF c.practiceMode /\ ~c.gameStarted /\ ~c.loading
                 THEN "PRACTICE MODE"
                 ELSE IF c.gameOver THEN "GAME OVER"
                 ELSE "canvas"
    IN  IF c.loading THEN "LOADING GAME..."
        ELSE IF c.gameId # 0 /\ c.gameData = Null THEN "GAME NOT FOUND"
        ELSE IF c.gameData = Null THEN board
        ELSE IF data.status = "Pending"
        THEN IF isHost(data, c.account) THEN "WAITING FOR PLAYER"
             ELSE IF ~isPlayer(data, c.account) THEN "JOIN GAME"
             ELSE "WAITING FOR HOST"
        ELSE IF data.status = "Active" /\ ~c.gameStarted
        THEN IF isHost(data, c.account) /\ hasPlayer(data)
             THEN "WAITING FOR PLAYER"
             ELSE IF isPlayer(data, c.account) /\ hasPlayer(data)
             THEN "WAITING FOR OTHER PLAYER"
             ELSE IF isHost(data, c.account) /\ ~hasPlayer(data)
             THEN "WAITING FOR PLAYER"
             ELSE board
        ELSE board

\* Mutant: the loop is started whatever gameStarted says.
Looping_NotStarted(c) == ~c.gameOver

\* The loop effect has started gameLoop and its cleanup has not cancelled
\* the animation frame.
Looping(c) == c.gameStarted /\ ~c.gameOver

\* updateBall's scoring branch runs when this holds.
CanScore(c) ==
    Looping(c) /\ ~c.completing /\ ~c.scoredThisFrame

\* The timers one run of the setScore updater sets: at the winning point the
\* call of handleCompleteGame with the winner the closure names, before it
\* the reset of the ball.
Timeouts(c, side, newScore) ==
    IF newScore >= WinScore
    THEN IF c.practiceMode THEN <<[run |-> "complete", winner |-> side]>>
         ELSE IF c.gameData = Null THEN <<>>
         ELSE <<[run |-> "complete",
                 winner |-> IF side = "right" THEN c.gameData[1].player
                            ELSE c.gameData[1].host]>>
    ELSE <<[run |-> "reset", winner |-> 0]>>

\* updateBall when the ball has left the field on the side of the loser:
\* the component after the point, and the timers it sets.  The updater
\* passed to setScore sets the timers; a build that invokes updaters twice
\* sets the completion timer twice (the two resets of the ball run at the
\* same instant and are one).
updateBall(c, side, twice) ==
    LET newScore == c.score[side] + 1
        once == Timeouts(c, side, newScore)
    IN  [client |-> [c EXCEPT !.scoredThisFrame = TRUE, !.score[side] = newScore],
         timers |-> IF twice /\ newScore >= WinScore THEN once \o once ELSE once]

\* The lobby's check after a join: reads is what the successive getGame
\* calls give ("Active", "Pending", another status, or "throw").
RECURSIVE verifyJoined(_, _, _, _)
verifyJoined(retries, reads, made, waits) ==
    IF retries = 0
    THEN [gameLoaded |-> FALSE, reads |-> made, waits |-> waits,
          alert |-> "Game joined but could not verify status."]
    ELSE IF Head(reads) = "Active"
    THEN [gameLoaded |-> TRUE, reads |-> made + 1, waits |-> waits, alert |-> ""]
    ELSE IF Head(reads) = "Pending"
    THEN verifyJoined(retries - 1, Tail(reads), made + 1, Append(waits, 1000))
    ELSE IF Head(reads) = "throw"
    THEN verifyJoined(retries - 1, Tail(reads), made + 1,
                      IF retries - 1 > 0 THEN Append(waits, 1000) ELSE waits)
    ELSE [gameLoaded |-> FALSE, reads |-> made + 1, waits |-> waits,
          alert |-> "Game status is " \o Head(reads)]

\* ------------------------------------------------------------- Home page
\* The notification state of the page of a connected wallet.
Home(account) ==
    [account |-> account, showHostNotification |-> FALSE,
     hostNotificationGameId |-> 0, hostNotificationTimer |-> 60]

Notify(page, data) ==
    [page EXCEPT !.showHostNotification = TRUE,
                 !.hostNotificationGameId = data.gameId,
                 !.hostNotificationTimer = 60]

\* socket.on('player-joined-game') of the page that names the host in its
\* test.
onPlayerJoinedGame(page, data) ==
    IF /\ data.host # Undefined
       /\ toLowerCase(data.host) = toLowerCase(page.account)
    THEN Notify(page, data)
    ELSE page

\* socket.on('player-joined-game') of the earlier page, which reads
\* data.gameId only.
onPlayerJoinedGame_Earlier(page, data) == Notify(page, data)

\* ------------------------------------------------------------------ actions
\* A transaction with outcome r: the chain state becomes r.state, which for
\* a reverted transaction is the state before it.
Commit(r, op, gameId) ==
    /\ games' = r.state.games
    /\ playerStats' = r.state.playerStats
    /\ playerGames' = r.state.playerGames
    /\ gameCounter' = r.state.gameCounter
    /\ feeWallet' = r.state.feeWallet
    /\ owner' = r.state.owner
    /\ balance' = r.state.balance
    /\ contractBalance' = r.state.contractBalance
    /\ tally' = IF r.result = "ok" /\ op \in {"joinGame", "completeGame"}
                THEN [tally EXCEPT ![gameId][op] = @ + 1]
                ELSE tally

\* A transaction sent from outside the modelled client and server.
Apply(r, op, gameId) ==
    /\ Commit(r, op, gameId)
    /\ UNCHANGED <<now, refuses, serverVars, clientVars>>

\* No Game component is open: the component of no account.
Closed == Game(0, FALSE, ZeroText)

\* The deployment: constructor(_feeWallet) run by the deployer, who names
\* the deploying wallet as the fee wallet (DEPLOYMENT.md: "your wallet address").
Deployer == CHOOSE a \in Users : TRUE

\* What the owner may pass to setFeeWallet: the zero address, the deployer
\* and the contract wallet.
FeeWallets == {ZeroAddress, Deployer} \cup Contracts

NoTally == [joinGame |-> 0, completeGame |-> 0]

Init ==
    /\ games = [id \in GameIds |-> NoGame]
    /\ playerStats = [a \in Address |-> NoStats]
    /\ playerGames = [a \in Address |-> <<>>]
    /\ gameCounter = 0
    /\ owner = Deployer
    /\ feeWallet = Deployer
    /\ balance = [a \in Address |-> IF a \in Users THEN StartBalance ELSE 0]
    /\ contractBalance = 0
    /\ now = 0
    /\ refuses = {}
    /\ tally = [id \in GameIds |-> NoTally]
    /\ activeGames = [id \in {} |-> NewGame]
    /\ rooms = [id \in GameIds |-> {}]
    /\ sockets = {}
    /\ outbox = <<>>
    /\ component = Closed
    /\ timers = <<>>
    /\ polls = 0
    /\ calls = 0
    /\ development = FALSE

CreateGameTx(sender, value, difficulty, expirationDuration) ==
    /\ gameCounter < MaxGames
    /\ balance[sender] >= value
    /\ Apply(createGame(Ledger, sender, value, difficulty, expirationDuration, now),
             "createGame", 0)

JoinGameTx(sender, value, gameId) ==
    /\ balance[sender] >= value
    /\ Apply(joinGame(Ledger, sender, value, gameId, now), "joinGame", gameId)

CancelGameTx(sender, gameId) ==
    Apply(cancelGame(Ledger, sender, gameId), "cancelGame", gameId)

CancelExpiredGameTx(sender, gameId) ==
    Apply(cancelExpiredGame(Ledger, sender, gameId, now), "cancelExpiredGame", gameId)

CompleteGameTx(sender, gameId, winner) ==
    Apply(completeGame(Ledger, sender, gameId, winner), "completeGame", gameId)

SetFeeWalletTx(sender, newFeeWallet) ==
    Apply(setFeeWallet(Ledger, sender, newFeeWallet), "setFeeWallet", 0)

CreateGame ==
    \E sender \in Users, value \in Values, difficulty \in Difficulties,
       expirationDuration \in Durations :
        CreateGameTx(sender, value, difficulty, expirationDuration)

JoinGame ==
    \E sender \in Users, value \in Values, gameId \in GameIds :
        JoinGameTx(sender, value, gameId)

CancelGame ==
    \E sender \in Users, gameId \in GameIds : CancelGameTx(sender, gameId)

CancelExpiredGame ==
    \E sender \in Users, gameId \in GameIds : CancelExpiredGameTx(sender, gameId)

CompleteGame ==
    \E sender \in Users, gameId \in GameIds, winner \in Address :
        CompleteGameTx(sender, gameId, winner)

SetFeeWallet ==
    \E sender \in Users, newFeeWallet \in FeeWallets :
        SetFeeWalletTx(sender, newFeeWallet)

\* A contract wallet starts or stops reverting on incoming ether.
WalletSwitch ==
    \E a \in Contracts :
        /\ refuses' = IF a \in refuses THEN refuses \ {a} ELSE refuses \cup {a}
        /\ UNCHANGED <<ledgerVars, now, tally, serverVars, clientVars>>

\* A later block: block.timestamp grows.
Tick ==
    /\ now < MaxTime
    /\ now' = now + 1
    /\ UNCHANGED <<ledgerVars, refuses, tally, serverVars, clientVars>>

Next ==
    \/ CreateGame
    \/ JoinGame
    \/ CancelGame
    \/ CancelExpiredGame
    \/ CompleteGame
    \/ SetFeeWallet
    \/ WalletSwitch
    \/ Tick

Spec == Init /\ [][Next]_vars

\* The lobby's loadGames: every client that lists the pending games calls
\* cancelExpiredGame on each one whose deadline has passed.  Some account
\* other than the host keeps doing so.
AutoCancel(gameId) ==
    /\ gameId \in 1..gameCounter
    /\ games[gameId].status = "Pending"
    /\ games[gameId].expiresAt <= now
    /\ \E sender \in Users \ {games[gameId].host} :
            CancelExpiredGameTx(sender, gameId)

\* Time advances and clients keep auto-cancelling expired games: a cancel
\* that can commit again and again eventually does.
FairSpec ==
    /\ Spec
    /\ WF_vars(Tick)
    /\ \A gameId \in GameIds : SF_vars(AutoCancel(gameId))

\* ------------------------------------------------- coordinator transitions
\* The server after a handler run r, and what the run emitted.
Handle(r) ==
    /\ activeGames' = r.state.activeGames
    /\ rooms' = r.state.rooms
    /\ sockets' = r.state.sockets
    /\ outbox' = r.emits
    /\ UNCHANGED <<chainVars, clientVars>>

\* io.on('connection')
Connect ==
    \E socket \in Sockets \ sockets :
        Handle([state |-> [Server EXCEPT !.sockets = @ \cup {socket}],
                emits |-> <<>>])

\* What a client may name as host or player in a game-joined event.
Accounts == {Text(a, form) : a \in Users, form \in Forms}

JoinedData ==
    [gameId : GameIds, host : {Checksum(Deployer), Undefined},
     player : {Text(NumUsers, "lower")}]

JoinGameEvent ==
    \E socket \in sockets, gameId \in GameIds :
        Handle(on_join_game(Server, socket, gameId))

GameCreatedEvent ==
    \E socket \in sockets : Handle(on_game_created(Server, socket))

GameJoinedEvent ==
    \E socket \in sockets, data \in JoinedData :
        Handle(on_game_joined(Server, socket, data))

GameCancelledEvent ==
    \E socket \in sockets, gameId \in GameIds :
        Handle(on_game_cancelled(Server, socket, [gameId |-> gameId]))

PaddleMoveEvent ==
    \E socket \in sockets, gameId \in GameIds, y \in Payloads :
        Handle(on_paddle_move(Server, socket, [gameId |-> gameId, y |-> y]))

BallUpdateEvent ==
    \E socket \in sockets, gameId \in GameIds, ball \in Payloads :
        Handle(on_ball_update(Server, socket, [gameId |-> gameId, ball |-> ball]))

ScoreUpdateEvent ==
    \E socket \in sockets, gameId \in GameIds, scores \in Payloads :
        Handle(on_score_update(Server, socket,
                               [gameId |-> gameId, scores |-> scores]))

DisconnectEvent ==
    \E socket \in sockets : Handle(on_disconnect(Server, socket))

CoordNext ==
    \/ Connect
    \/ JoinGameEvent
    \/ GameCreatedEvent
    \/ GameJoinedEvent
    \/ GameCancelledEvent
    \/ PaddleMoveEvent
    \/ BallUpdateEvent
    \/ ScoreUpdateEvent
    \/ DisconnectEvent

CoordSpec == Init /\ [][CoordNext]_vars

\* ----------------------------------------------------- client transitions
\* One Game component, the wallet of one account, and the other accounts'
\* transactions on the match it shows.  No coordinator message is delivered.
TheGame == 1

\* The host creates the match the component is about.
HostCreates ==
    /\ gameCounter = 0
    /\ \E sender \in Users : CreateGameTx(sender, 1, 5, 1)

\* The page renders the Game component: for a match, or for practice.
Open ==
    /\ component.account = ZeroText
    /\ \E account \in Accounts, practiceMode \in BOOLEAN, build \in BOOLEAN :
            /\ component' = Game(IF practiceMode THEN 0 ELSE TheGame,
                                 practiceMode, account)
            /\ development' = (build /\ reactStrictMode)
    /\ UNCHANGED <<chainVars, serverVars, timers, polls, calls>>

MountEffect ==
    /\ component.account # ZeroText
    /\ ~component.mounted
    /\ \E failures \in 0..MaxFailures :
            component' = mountEffect(component, Ledger, failures)
    /\ UNCHANGED <<chainVars, serverVars, timers, polls, calls, development>>

\* The poll interval fires; the reads it has made are counted up to MaxPolls
\* and the count is dropped when the interval is cleared.
Poll(throws, failures) ==
    /\ Polling(component)
    /\ component' = pollInterval(component, Ledger, throws, failures)
    /\ polls' = IF ~Polling(component') THEN 0
                ELSE IF polls < MaxPolls THEN polls + 1
                ELSE polls
    /\ UNCHANGED <<chainVars, serverVars, timers, calls, development>>

PollTick ==
    \E throws \in BOOLEAN, failures \in 0..MaxFailures : Poll(throws, failures)

\* A tick of the poll interval whose reads succeed.
PollOk == Poll(FALSE, 0)

\* handleJoinGame, behind the JOIN GAME button: joinGame with the wager the
\* component has loaded, then loadGame.
JoinButton ==
    /\ View(component) = "JOIN GAME"
    /\ balance[component.signer] >= component.gameData[1].wager
    /\ LET r == joinGame(Ledger, component.signer, component.gameData[1].wager,
                         component.gameId, now)
       IN  /\ Commit(r, "joinGame", component.gameId)
           /\ \E failures \in 0..MaxFailures :
                   component' = IF r.result = "ok"
                                THEN loadGame(component, r.state, failures)
                                ELSE component
    /\ UNCHANGED <<now, refuses, serverVars, timers, polls, calls, development>>

\* START PRACTICE GAME
StartPractice ==
    /\ View(component) = "PRACTICE MODE"
    /\ component' = initializeGame(component)
    /\ UNCHANGED <<chainVars, serverVars, timers, polls, calls, development>>

\* A frame of the game loop in which the ball has left the field.
Score ==
    /\ CanScore(component)
    /\ \E side \in {"left", "right"} :
            LET r == updateBall(component, side, development)
            IN  /\ component' = r.client
                /\ timers' = timers \o r.timers
    /\ UNCHANGED <<chainVars, serverVars, polls, calls, development>>

\* The first pending timer runs.  Its callback closes over the render in
\* which the point was scored, where gameOver and completing are false: it
\* resets the ball, which lets the next frame clear scoredThisFrame, or it
\* calls handleCompleteGame.
TimerFires ==
    /\ timers # <<>>
    /\ timers' = Tail(timers)
    /\ LET timer == Head(timers)
           closure == [component EXCEPT !.completing = FALSE, !.gameOver = FALSE]
           h == handleCompleteGame(closure, Ledger, timer.winner)
           sends == ~closure.practiceMode /\ closure.gameId # 0 /\ closure.signer # 0
       IN  IF timer.run = "reset"
           THEN /\ component' = [component EXCEPT !.scoredThisFrame = FALSE]
                /\ UNCHANGED <<ledgerVars, tally, calls>>
           ELSE /\ component' = IF closure.practiceMode
                               THEN [component EXCEPT
                                        !.gameOver = h.client.gameOver,
                                        !.practiceWinner = h.client.winner]
                               ELSE IF sends THEN h.client
                               ELSE component
                /\ calls' = IF sends THEN calls + 1 ELSE calls
                /\ Commit([state |-> h.state,
                           result |-> IF sends /\ h.alert = "" THEN "ok"
                                      ELSE "reverted"],
                          "completeGame", TheGame)
    /\ UNCHANGED <<now, refuses, serverVars, polls, development>>

\* Transactions of the other accounts on the match.
OthersJoin ==
    \E sender \in Users \ {component.signer} : JoinGameTx(sender, 1, TheGame)

OthersCancel ==
    \E sender \in Users \ {component.signer} : CancelGameTx(sender, TheGame)

OthersComplete ==
    \E sender \in Users \ {component.signer}, winner \in Users :
        CompleteGameTx(sender, TheGame, winner)

ClientNext ==
    \/ HostCreates
    \/ Open
    \/ MountEffect
    \/ PollTick
    \/ JoinButton
    \/ StartPractice
    \/ Score
    \/ TimerFires
    \/ OthersJoin
    \/ OthersCancel
    \/ OthersComplete

ClientSpec == Init /\ [][ClientNext]_vars

\* The effect of the first render runs, the poll interval keeps firing and
\* its reads eventually succeed.
FairClientSpec ==
    /\ ClientSpec
    /\ WF_vars(MountEffect)
    /\ WF_vars(PollOk)

\* Furthermore a timer that was set runs: setTimeout callbacks are not
\* cancelled by the component.
FairPlaySpec ==
    /\ FairClientSpec
    /\ WF_vars(TimerFires)

\* =============================================================== properties
\* The ids createGame has allocated: the matches.
Created == 1..gameCounter

\* What a match is meant to hold in escrow in each state.
Locked(game) ==
    IF game.status = "Pending" THEN game.wager
    ELSE IF game.status = "Active" THEN 2 * game.wager
    ELSE 0

RECURSIVE SumLocked(_)
SumLocked(ids) ==
    IF ids = {} THEN 0
    ELSE LET id == CHOOSE x \in ids : TRUE
         IN  Locked(games[id]) + SumLocked(ids \ {id})

Participants(game) == {game.host, game.player}

\* C1. Escrow conservation: in every reachable state the ether the contract
\* holds equals the sum over all game records of wager (Pending), 2 * wager
\* (Active) and 0 (Completed, Cancelled).
C1_EscrowConservation == contractBalance = SumLocked(GameIds)

\* Two matches exist, one Pending and one Active, with different wagers.
C1_Witness ==
    \E a \in Created, b \in Created :
        /\ games[a].status = "Pending"
        /\ games[b].status = "Active"
        /\ games[a].wager # games[b].wager
        /\ contractBalance = games[a].wager + 2 * games[b].wager

\* C2. No double settlement: completeGame commits at most once per match,
\* and on a Completed match every completeGame call by either participant
\* naming either participant reverts with "Game not active" and moves no
\* funds.
C2_NoDoubleSettlement ==
    \A id \in GameIds :
        /\ tally[id].completeGame <= 1
        /\ games[id].status = "Completed" =>
             \A sender \in Participants(games[id]) \cap Users,
                winner \in Participants(games[id]) :
                 LET r == completeGame(Ledger, sender, id, winner)
                 IN  /\ r.result = "Game not active"
                     /\ r.transfers = <<>>
                     /\ r.state.balance = balance
                     /\ r.state.contractBalance = contractBalance
                     /\ r.state = Ledger

\* A match was settled once while the contract still holds another match's
\* escrow, which a second settlement could draw on.
C2_Witness ==
    \E id \in Created :
        /\ games[id].status = "Completed"
        /\ tally[id].completeGame = 1
        /\ contractBalance >= TotalPot(games[id])

\* C3. A match's status changes only Pending -> Active (a committed
\* joinGame), Pending -> Cancelled (cancelGame or cancelExpiredGame) or
\* Active -> Completed (a committed completeGame); a Completed or Cancelled
\* match never changes status again.  A match is an id createGame has
\* allocated.
C3_Step(id) ==
    LET from == games[id].status
        to == games'[id].status
    IN  \/ from = to
        \/ /\ from = "Pending" /\ to = "Active"
           /\ tally'[id].joinGame = tally[id].joinGame + 1
        \/ /\ from = "Pending" /\ to = "Cancelled"
           /\ \E sender \in Users :
                \/ cancelGame(Ledger, sender, id).result = "ok"
                \/ cancelExpiredGame(Ledger, sender, id, now).result = "ok"
        \/ /\ from = "Active" /\ to = "Completed"
           /\ tally'[id].completeGame = tally[id].completeGame + 1

C3_StateTransitions == [][\A id \in Created : C3_Step(id)]_vars

\* One match has been completed and another cancelled.
C3_Witness ==
    \E a \in Created, b \in Created :
        /\ games[a].status = "Completed"
        /\ games[b].status = "Cancelled"

\* The fee and the payout of a pot of two wagers w at 100 basis points.
ExpectedFee(w) == (2 * w * 100) \div 10000
ExpectedPayout(w) == 2 * w - ExpectedFee(w)

\* C4. All-or-nothing settlement: when the refund of cancelGame or
\* cancelExpiredGame, or the fee transfer or the payout of completeGame,
\* fails, the call reverts with the transfer's message and the whole state
\* (game records, balances, player records) is as before the call, also
\* when the fee had been sent before the payout failed.
C4_AllOrNothing ==
    \A id \in GameIds, sender \in Users, winner \in Address :
        LET game == games[id]
            feeFails == ExpectedFee(game.wager) > 0 /\ feeWallet \in refuses
            cancelled == cancelGame(Ledger, sender, id)
            expired == cancelExpiredGame(Ledger, sender, id, now)
            completed == completeGame(Ledger, sender, id, winner)
        IN  /\ ( /\ game.status = "Pending" /\ game.host = sender
                 /\ game.host \in refuses )
                => cancelled.result = "Refund failed" /\ cancelled.state = Ledger
            /\ ( /\ game.status = "Pending" /\ now >= game.expiresAt
                 /\ game.host \in refuses )
                => expired.result = "Refund failed" /\ expired.state = Ledger
            /\ ( /\ game.status = "Active"
                 /\ sender \in Participants(game) /\ winner \in Participants(game)
                 /\ feeFails )
                => /\ completed.result = "Fee transfer failed"
                   /\ completed.state = Ledger
            /\ ( /\ game.status = "Active"
                 /\ sender \in Participants(game) /\ winner \in Participants(game)
                 /\ ~feeFails /\ winner \in refuses )
                => /\ completed.result = "Winnings transfer failed"
                   /\ completed.state = Ledger

\* An Active match with a non-zero fee whose fee wallet accepts and one of
\* whose participants refuses: completeGame naming that participant sends
\* the fee and then fails on the payout.
C4_Witness ==
    \E id \in Created :
        /\ games[id].status = "Active"
        /\ ExpectedFee(games[id].wager) > 0
        /\ feeWallet \notin refuses
        /\ \E winner \in Participants(games[id]) \cap refuses :
             completeGame(Ledger, games[id].host, id, winner).result
                 = "Winnings transfer failed"

\* C5. Fee correctness: a committed completeGame on a match with wager w
\* sends the fee wallet exactly floor(2w*100/10000) (no transfer when that
\* is 0) and the winner exactly 2w minus that; the two sum to 2w, which is
\* what leaves the contract.
C5_FeeCorrectness ==
    \A id \in GameIds, sender \in Users, winner \in Address :
        LET r == completeGame(Ledger, sender, id, winner)
            w == games[id].wager
            fee == ExpectedFee(w)
            payout == ExpectedPayout(w)
        IN  r.result = "ok" =>
              /\ r.transfers =
                     (IF fee = 0 THEN <<>> ELSE <<[to |-> feeWallet, amount |-> fee]>>)
                     \o <<[to |-> winner, amount |-> payout]>>
              /\ fee + payout = 2 * w
              /\ r.state.contractBalance = contractBalance - 2 * w
              /\ \A a \in Address :
                    r.state.balance[a] = balance[a]
                        + (IF a = feeWallet THEN fee ELSE 0)
                        + (IF a = winner THEN payout ELSE 0)

\* Two matches have been completed: one whose fee rounds down to 0 and one
\* whose fee of 1.5 rounds down to 1.
C5_Witness ==
    \E a \in Created, b \in Created :
        /\ games[a].status = "Completed" /\ games[a].wager = 1
        /\ games[b].status = "Completed" /\ games[b].wager = 75

\* C6. Join exclusivity: joinGame commits at most once per match; of two
\* callers who join the same Pending match with the wager before its
\* deadline, in either order the first commits and the second reverts with
\* "Game not available", its value not kept; any join on a match that is no
\* longer Pending reverts the same way.
C6_JoinExclusivity ==
    /\ \A id \in GameIds : tally[id].joinGame <= 1
    /\ \A id \in Created, first \in Users, second \in Users :
         LET game == games[id]
             r1 == joinGame(Ledger, first, game.wager, id, now)
             r2 == joinGame(r1.state, second, game.wager, id, now)
         IN  ( /\ game.status = "Pending" /\ now < game.expiresAt
               /\ first # second /\ game.host \notin {first, second}
               /\ balance[first] >= game.wager /\ balance[second] >= game.wager )
             => /\ r1.result = "ok"
                /\ r1.state.games[id].status = "Active"
                /\ r1.state.games[id].player = first
                /\ r2.result = "Game not available"
                /\ r2.state = r1.state
    /\ \A id \in Created, sender \in Users, value \in Values :
         LET r == joinGame(Ledger, sender, value, id, now)
         IN  games[id].status # "Pending"
             => r.result = "Game not available" /\ r.state = Ledger

\* A match has been joined once and a third account that holds the wager
\* calls joinGame on it.
C6_Witness ==
    \E id \in Created, second \in Users :
        /\ games[id].status = "Active"
        /\ tally[id].joinGame = 1
        /\ second \notin Participants(games[id])
        /\ balance[second] >= games[id].wager
        /\ joinGame(Ledger, second, games[id].wager, id, now).result
               = "Game not available"

\* A host's cancelGame races a challenger's joinGame on a Pending match: the
\* challenger is not the host, holds the wager and the deadline has not
\* passed.
Race(id, challenger) ==
    /\ games[id].status = "Pending"
    /\ now < games[id].expiresAt
    /\ challenger # games[id].host
    /\ balance[challenger] >= games[id].wager

\* joinGame ordered first: it commits, cancelGame then reverts with "Game not
\* cancellable" and the match is Active holding both wagers.
JoinFirst(id, challenger) ==
    LET game == games[id]
        joined == joinGame(Ledger, challenger, game.wager, id, now)
        cancelled == cancelGame(joined.state, game.host, id)
    IN  /\ joined.result = "ok"
        /\ cancelled.result = "Game not cancellable"
        /\ cancelled.state = joined.state
        /\ cancelled.state.games[id].status = "Active"
        /\ cancelled.state.contractBalance = contractBalance + game.wager

\* cancelGame ordered first: it commits, the host has the wager back, the
\* match is Cancelled holding nothing and joinGame reverts with "Game not
\* available".
CancelFirst(id, challenger) ==
    LET game == games[id]
        cancelled == cancelGame(Ledger, game.host, id)
        joined == joinGame(cancelled.state, challenger, game.wager, id, now)
    IN  /\ cancelled.result = "ok"
        /\ joined.result = "Game not available"
        /\ joined.state = cancelled.state
        /\ joined.state.games[id].status = "Cancelled"
        /\ joined.state.balance[game.host] = balance[game.host] + game.wager
        /\ joined.state.contractBalance = contractBalance - game.wager

\* cancelGame ordered first with a host that refuses the refund: cancelGame
\* reverts with "Refund failed", the state is unchanged, and joinGame commits.
CancelFirstRefused(id, challenger) ==
    LET game == games[id]
        cancelled == cancelGame(Ledger, game.host, id)
        joined == joinGame(cancelled.state, challenger, game.wager, id, now)
    IN  /\ cancelled.result = "Refund failed"
        /\ cancelled.state = Ledger
        /\ joined.result = "ok"
        /\ joined.state.games[id].status = "Active"
        /\ joined.state.contractBalance = contractBalance + game.wager

\* C7 as stated. Cancel-versus-join race: in either order exactly one of the
\* two commits; join first: cancel reverts, the match is Active holding
\* 2 * wager; cancel first: join reverts, the match is Cancelled holding 0
\* and the host is refunded.
C7_AsStated ==
    \A id \in Created, challenger \in Users :
        Race(id, challenger) =>
            JoinFirst(id, challenger) /\ CancelFirst(id, challenger)

\* C7, amended. As stated when the host accepts the refund; when the host
\* refuses it, a cancelGame ordered first reverts with "Refund failed",
\* leaves the match Pending, and the joinGame after it commits.  In every
\* case exactly one of the two commits.
C7_CancelJoinRace ==
    \A id \in Created, challenger \in Users :
        Race(id, challenger) =>
            /\ JoinFirst(id, challenger)
            /\ IF games[id].host \in refuses
               THEN CancelFirstRefused(id, challenger)
               ELSE CancelFirst(id, challenger)

\* A Pending match before its deadline whose host accepts ether and a
\* challenger holding the wager: either call alone would commit.
C7_Witness ==
    \E id \in Created, challenger \in Users :
        /\ Race(id, challenger)
        /\ cancelGame(Ledger, games[id].host, id).result = "ok"
        /\ joinGame(Ledger, challenger, games[id].wager, id, now).result = "ok"

\* cancelExpiredGame on a Pending match before its deadline reverts with
\* "Game has not expired yet".
NotYetExpired(id, sender) ==
    LET r == cancelExpiredGame(Ledger, sender, id, now)
    IN  /\ r.result = "Game has not expired yet"
        /\ r.state = Ledger

\* cancelExpiredGame commits: the match is Cancelled and the host has the
\* wager back, whoever the caller is.
ExpiredRefunded(id, sender) ==
    LET game == games[id]
        r == cancelExpiredGame(Ledger, sender, id, now)
    IN  /\ r.result = "ok"
        /\ r.state.games[id].status = "Cancelled"
        /\ r.transfers = <<[to |-> game.host, amount |-> game.wager]>>
        /\ r.state.contractBalance = contractBalance - game.wager
        /\ r.state.balance[game.host] = balance[game.host] + game.wager
        /\ sender # game.host => r.state.balance[sender] = balance[sender]

\* C8 as stated. Expiry monotonicity: on a Pending match cancelExpiredGame
\* fails whenever now < expiresAt and succeeds, refunding the host, whenever
\* now >= expiresAt, whatever account calls it.
C8_AsStated ==
    \A id \in Created, sender \in Users :
        games[id].status = "Pending" =>
            IF now < games[id].expiresAt
            THEN NotYetExpired(id, sender)
            ELSE ExpiredRefunded(id, sender)

\* C8, amended. As stated whenever the host's account accepts the refund;
\* when it refuses, cancelExpiredGame at or after the deadline reverts with
\* "Refund failed" and the match stays Pending, whatever account calls it.
C8_ExpiryMonotonicity ==
    \A id \in Created, sender \in Users :
        games[id].status = "Pending" =>
            IF now < games[id].expiresAt
            THEN NotYetExpired(id, sender)
            ELSE IF games[id].host \notin refuses
            THEN ExpiredRefunded(id, sender)
            ELSE LET r == cancelExpiredGame(Ledger, sender, id, now)
                 IN  r.result = "Refund failed" /\ r.state = Ledger

\* A Pending match past its deadline whose host accepts ether, and a caller
\* that is not its host for whom cancelExpiredGame commits.
C8_Witness ==
    \E id \in Created, sender \in Users :
        /\ games[id].status = "Pending"
        /\ now > games[id].expiresAt
        /\ sender # games[id].host
        /\ cancelExpiredGame(Ledger, sender, id, now).result = "ok"

\* C9. joinGame on a match that is still Pending but at or past its
\* deadline, by an account other than the host sending exactly the wager,
\* reverts with "Game has expired"; the match stays Pending with one wager
\* locked.
C9_JoinExpired ==
    \A id \in Created, sender \in Users :
        LET game == games[id]
            r == joinGame(Ledger, sender, game.wager, id, now)
        IN  ( /\ game.status = "Pending" /\ now >= game.expiresAt
              /\ sender # game.host /\ balance[sender] >= game.wager )
            => /\ r.result = "Game has expired"
               /\ r.state = Ledger
               /\ r.state.games[id].status = "Pending"
               /\ Locked(r.state.games[id]) = game.wager
               /\ r.state.contractBalance = contractBalance

\* A Pending match past its deadline and an account other than its host
\* that holds the wager.
C9_Witness ==
    \E id \in Created, sender \in Users :
        /\ games[id].status = "Pending"
        /\ now >= games[id].expiresAt
        /\ sender # games[id].host
        /\ balance[sender] >= games[id].wager
        /\ joinGame(Ledger, sender, games[id].wager, id, now).result
               = "Game has expired"

PendingExpired(id) ==
    /\ id \in Created
    /\ games[id].status = "Pending"
    /\ now >= games[id].expiresAt

C11_CompleteAuthorization ==
    \A id \in Created : games[id].status = "Active" =>
        \A sender \in Users, winner \in Address :
            LET game == games[id]
                r == completeGame(Ledger, sender, id, winner)
            IN  /\ r.result = "ok" =>
                       sender \in Participants(game) /\ winner \in Participants(game)
                /\ sender \notin Participants(game) =>
                       /\ r.result = "Only game participants can complete game"
                       /\ r.state = Ledger
                /\ (sender \in Participants(game) /\ winner \notin Participants(game)) =>
                       /\ r.result = "Winner must be a player"
                       /\ r.state = Ledger
                /\ (sender \in Participants(game) /\ winner \in Participants(game)) =>
                       /\ r.result \in {"ok", "Fee transfer failed",
                                        "Winnings transfer failed"}
                       /\ (refuses = {}) => r.result = "ok"

\* An Active match, an account outside it that is rejected as caller and as
\* winner, and both participants able to settle naming either participant.
C11_Witness ==
    \E id \in Created, outsider \in Users :
        LET game == games[id]
        IN  /\ game.status = "Active"
            /\ outsider \notin Participants(game)
            /\ completeGame(Ledger, outsider, id, game.host).result
                   = "Only game participants can complete game"
            /\ completeGame(Ledger, game.host, id, outsider).result
                   = "Winner must be a player"
            /\ \A sender \in Participants(game), winner \in Participants(game) :
                   completeGame(Ledger, sender, id, winner).result = "ok"

\* The participant of a match that is not the named winner.
Loser(game, winner) == IF winner = game.host THEN game.player ELSE game.host

\* C12. A committed completeGame changes the player records exactly so: the
\* winner's wins grows by 1, the winner's totalWinnings grows by the payout,
\* the loser's gamesPlayed grows by 1, and no other counter of any address
\* changes.
C12_AsStated ==
    \A id \in Created : games[id].status = "Active" =>
        \A sender \in Participants(games[id]), winner \in Participants(games[id]) :
            LET game == games[id]
                r == completeGame(Ledger, sender, id, winner)
                loser == Loser(game, winner)
                won == [playerStats EXCEPT
                            ![winner].wins = @ + 1,
                            ![winner].totalWinnings = @ + ExpectedPayout(game.wager)]
            IN  r.result = "ok" =>
                    r.state.playerStats = [won EXCEPT ![loser].gamesPlayed = @ + 1]

\* C13. Every player's wins, totalWinnings and gamesPlayed never decrease,
\* and a step changes a player record only if in that step some match goes
\* from Active to Completed: createGame, joinGame, cancelGame and
\* cancelExpiredGame leave every player record unchanged.
C13_AsStated ==
    [][ /\ \A a \in Address :
              /\ playerStats'[a].wins >= playerStats[a].wins
              /\ playerStats'[a].totalWinnings >= playerStats[a].totalWinnings
              /\ playerStats'[a].gamesPlayed >= playerStats[a].gamesPlayed
        /\ playerStats' # playerStats =>
              \E id \in GameIds :
                  games[id].status = "Active" /\ games'[id].status = "Completed"
      ]_vars

\* The outcome of a rejected call: a revert message, no transfer, and the
\* whole ledger (game records, balances and escrow, player records, id
\* histories, id counter) as before the call.
Rejected(r) ==
    /\ r.result # "ok"
    /\ r.transfers = <<>>
    /\ r.state = Ledger

\* The arguments the validation of createGame is probed with: the bounds of
\* each range and their neighbours.
ProbeDifficulties == {0, 1, 5, 10, 11}
ProbeDurations == {0, 1, SevenDays, SevenDays + 1}

\* C14. Every call whose precondition is violated (wager 0, difficulty
\* outside 1..10, duration 0 or above 7 days, wrong caller, wrong status,
\* wager mismatch, deadline passed or not yet reached) is rejected with the
\* whole ledger unchanged.
C14_RejectedUnchanged ==
    /\ \A sender \in Users, value \in Values,
          difficulty \in ProbeDifficulties, duration \in ProbeDurations :
            ( /\ balance[sender] >= value
              /\ \/ value = 0
                 \/ difficulty < 1 \/ difficulty > 10
                 \/ duration = 0 \/ duration > SevenDays )
            => Rejected(createGame(Ledger, sender, value, difficulty, duration, now))
    /\ \A id \in Created, sender \in Users :
          LET game == games[id]
          IN  /\ \A value \in Values :
                    ( /\ balance[sender] >= value
                      /\ \/ game.status # "Pending"
                         \/ sender = game.host
                         \/ value # game.wager
                         \/ now >= game.expiresAt )
                    => Rejected(joinGame(Ledger, sender, value, id, now))
              /\ (game.status # "Pending" \/ sender # game.host)
                    => Rejected(cancelGame(Ledger, sender, id))
              /\ (game.status # "Pending" \/ now < game.expiresAt)
                    => Rejected(cancelExpiredGame(Ledger, sender, id, now))
              /\ \A winner \in Address :
                    ( \/ game.status # "Active"
                      \/ sender \notin Participants(game)
                      \/ winner \notin Participants(game) )
                    => Rejected(completeGame(Ledger, sender, id, winner))

\* A Pending match with wager 75 before its deadline and an account other
\* than its host whose joinGame with value 1 is rejected with "Wager must
\* match", the match still Pending with 75 locked.
C14_Witness ==
    \E id \in Created, sender \in Users :
        LET game == games[id]
            r == joinGame(Ledger, sender, 1, id, now)
        IN  /\ game.status = "Pending" /\ game.wager = 75
            /\ sender # game.host /\ now < game.expiresAt
            /\ balance[sender] >= 1
            /\ r.result = "Wager must match"
            /\ r.state.games[id].status = "Pending"
            /\ Locked(r.state.games[id]) = 75

\* A committed cancel path on game: one transfer, the full wager to the
\* host; the escrow shrinks by the wager, no other account's balance moves,
\* and the fee wallet receives nothing as fee recipient.
RefundsHostOnly(r, game) ==
    /\ r.transfers = <<Transfer(game.host, game.wager)>>
    /\ r.state.balance = [balance EXCEPT ![game.host] = @ + game.wager]
    /\ r.state.contractBalance = contractBalance - game.wager
    /\ feeWallet # game.host => r.state.balance[feeWallet] = balance[feeWallet]

\* C15. cancelGame commits only for the host on a Pending match, and for
\* the host it commits before and after the deadline alike (its refund
\* being accepted).  Every committed cancelGame or cancelExpiredGame pays
\* the host exactly the full wager and nothing to the fee wallet.  Of the
\* contract's calls only a committed completeGame pays the fee wallet:
\* createGame and joinGame by other accounts, and setFeeWallet, leave its
\* balance unchanged.
C15_CancelRefund ==
    /\ \A id \in Created, sender \in Users :
          LET game == games[id]
              rc == cancelGame(Ledger, sender, id)
              re == cancelExpiredGame(Ledger, sender, id, now)
          IN  /\ rc.result = "ok" => (sender = game.host /\ game.status = "Pending")
              /\ ( /\ sender = game.host /\ game.status = "Pending"
                    /\ game.host \notin refuses ) => rc.result = "ok"
              /\ rc.result = "ok" => RefundsHostOnly(rc, game)
              /\ re.result = "ok" => RefundsHostOnly(re, game)
              /\ \A value \in Values :
                    LET rj == joinGame(Ledger, sender, value, id, now)
                    IN  (balance[sender] >= value /\ sender # feeWallet) =>
                            rj.state.balance[feeWallet] = balance[feeWallet]
    /\ \A sender \in Users, value \in Values, difficulty \in Difficulties,
          duration \in Durations :
            LET r == createGame(Ledger, sender, value, difficulty, duration, now)
            IN  (balance[sender] >= value /\ sender # feeWallet
                    /\ gameCounter < MaxGames) =>
                    r.state.balance[feeWallet] = balance[feeWallet]
    /\ \A sender \in Users, newFeeWallet \in FeeWallets :
            setFeeWallet(Ledger, sender, newFeeWallet).state.balance = balance

\* A Pending match past its deadline whose host is not the fee wallet: the
\* host's cancelGame and another account's cancelExpiredGame both commit,
\* each refunding the wager.
C15_Witness ==
    \E id \in Created, other \in Users :
        LET game == games[id]
        IN  /\ game.status = "Pending"
            /\ now > game.expiresAt
            /\ game.host # feeWallet
            /\ other # game.host
            /\ cancelGame(Ledger, game.host, id).result = "ok"
            /\ cancelExpiredGame(Ledger, other, id, now).result = "ok"
            /\ cancelGame(Ledger, other, id).result = "Only host can cancel"

\* C16. createGame commits if and only if the wager sent is above 0, the
\* difficulty is within 1..10 and the duration is above 0 and at most 7
\* days; so every stored match has wager > 0, difficulty within 1..10 and
\* createdAt < expiresAt <= createdAt + 7 days.
C16_CreateValidation ==
    /\ \A sender \in Users, value \in Values,
          difficulty \in ProbeDifficulties, duration \in ProbeDurations :
            (balance[sender] >= value /\ gameCounter < MaxGames) =>
                ( createGame(Ledger, sender, value, difficulty, duration, now).result
                      = "ok"
                  <=> ( /\ value > 0
                        /\ 1 <= difficulty /\ difficulty <= 10
                        /\ 0 < duration /\ duration <= SevenDays ) )
    /\ \A id \in Created :
            /\ games[id].wager > 0
            /\ games[id].difficulty \in 1..10
            /\ games[id].createdAt < games[id].expiresAt
            /\ games[id].expiresAt <= games[id].createdAt + SevenDays

\* A stored match, in a state where createGame accepts difficulty 1 and 10
\* and a duration of exactly 7 days and rejects the values next to them.
C16_Witness ==
    \E id \in Created, sender \in Users :
        /\ games[id].wager > 0
        /\ gameCounter < MaxGames
        /\ balance[sender] >= 1
        /\ createGame(Ledger, sender, 1, 1, SevenDays, now).result = "ok"
        /\ createGame(Ledger, sender, 1, 10, 1, now).result = "ok"
        /\ createGame(Ledger, sender, 1, 10, SevenDays + 1, now).result
               = "Expiration duration cannot exceed 7 days"
        /\ createGame(Ledger, sender, 1, 11, 1, now).result
               = "Difficulty must be between 1 and 10"
        /\ createGame(Ledger, sender, 1, 0, 1, now).result
               = "Difficulty must be between 1 and 10"
        /\ createGame(Ledger, sender, 0, 5, 1, now).result
               = "Wager must be greater than 0"
        /\ createGame(Ledger, sender, 1, 5, 0, now).result
               = "Expiration duration must be greater than 0"

\* C17. Each committed createGame returns the previous counter plus 1,
\* makes it the counter, and stores under it a record with host = caller,
\* player unset, wager = value sent, status Pending, createdAt = now and
\* expiresAt = now + duration; so ids start at 1, are allocated once each in
\* creation order, and the record stored under id i always carries id i.
C17_IdAllocation ==
    /\ [](\A sender \in Users, value \in Values,
             difficulty \in ProbeDifficulties, duration \in ProbeDurations :
             LET r == createGame(Ledger, sender, value, difficulty, duration, now)
             IN  ( /\ balance[sender] >= value /\ gameCounter < MaxGames
                   /\ r.result = "ok" )
                 => /\ r.ret = gameCounter + 1
                    /\ r.state.gameCounter = gameCounter + 1
                    /\ r.state.games[r.ret] =
                          [host |-> sender, player |-> ZeroAddress,
                           wager |-> value, difficulty |-> difficulty,
                           status |-> "Pending", gameId |-> r.ret,
                           createdAt |-> now, expiresAt |-> now + duration])
    /\ [](\A id \in Created :
             /\ games[id].gameId = id
             /\ \A earlier \in 1..(id - 1) :
                    games[earlier].createdAt <= games[id].createdAt)
    /\ [][ /\ gameCounter' \in {gameCounter, gameCounter + 1}
           /\ gameCounter' = gameCounter + 1 =>
                 /\ games'[gameCounter'].gameId = gameCounter'
                 /\ games'[gameCounter'].status = "Pending"
                 /\ games'[gameCounter'].player = ZeroAddress
                 /\ games'[gameCounter'].createdAt = now
         ]_vars

\* Two matches created by different hosts at different times carry ids 1
\* and 2 in creation order.
C17_Witness ==
    /\ gameCounter = 2
    /\ games[1].gameId = 1 /\ games[2].gameId = 2
    /\ games[1].host # games[2].host
    /\ games[1].createdAt < games[2].createdAt

\* The fields of a game record fixed at creation.
Fixed(game) ==
    <<game.host, game.wager, game.difficulty, game.createdAt, game.expiresAt,
      game.gameId>>

\* C18. In every step every match that exists before the step exists after
\* it with the same host, wager, difficulty, createdAt, expiresAt and id;
\* its player field changes only in the step of its one committed joinGame
\* (from unset, the match going Pending -> Active); and a step changes the
\* record of at most one game id.
C18_RecordFrame ==
    [][ /\ gameCounter' >= gameCounter
        /\ \A id \in Created :
              /\ Fixed(games'[id]) = Fixed(games[id])
              /\ games'[id].player # games[id].player =>
                    /\ games[id].player = ZeroAddress
                    /\ games[id].status = "Pending"
                    /\ games'[id].status = "Active"
                    /\ tally[id].joinGame = 0
                    /\ tally'[id].joinGame = 1
        /\ Cardinality({id \in GameIds : games'[id] # games[id]}) <= 1
      ]_vars

\* Two matches of different hosts, the first joined once and since
\* settled, the second still Pending as created.
C18_Witness ==
    /\ gameCounter = 2
    /\ games[1].status = "Completed"
    /\ tally[1].joinGame = 1
    /\ games[1].player # ZeroAddress
    /\ games[2].status = "Pending"
    /\ games[2].player = ZeroAddress
    /\ games[2].host # games[1].host

\* C19. Fetching a match by an id that was never created yields an explicit
\* not-found signal, on every fetch path: never a default-valued record
\* and never the record of another match.
C19_AsStated ==
    \A id \in GameIds \ Created :
        /\ ~client_getGame(Ledger, id).found
        /\ ~lib_getGame(Ledger, id).found

\* C20. When both participants' clients submit completeGame for the same
\* Active match and the first commits, the second, whose transaction
\* reverts because the match is no longer Active, takes the match as
\* settled: it shows no alert and its game stays over.
C20_AsStated ==
    \A id \in Created : games[id].status = "Active" =>
        \A a \in Participants(games[id]), b \in Participants(games[id]),
           winnerA \in Participants(games[id]), winnerB \in Participants(games[id]) :
            LET first == handleCompleteGame(GameComponent(a, id), Ledger, winnerA)
                second == handleCompleteGame(GameComponent(b, id), first.state,
                                             winnerB)
            IN  (a # b /\ first.state.games[id].status = "Completed") =>
                    /\ second.state = first.state
                    /\ second.alert = ""
                    /\ second.client.gameOver

\* The registered participants of a room; none when the room does not exist.
Registered(gameId) ==
    IF gameId \in DOMAIN activeGames THEN activeGames[gameId].players ELSE <<>>

\* C25. After any sequence of joins and disconnects every room has at most
\* 2 registered participants, and a join-game for a room that has 2 leaves
\* the registered participants as they were and is answered with nothing.
C25_RoomCap ==
    \A gameId \in DOMAIN activeGames :
        /\ Len(activeGames[gameId].players) <= 2
        /\ Len(activeGames[gameId].players) = 2 =>
                \A socket \in sockets :
                    LET r == on_join_game(Server, socket, gameId)
                    IN  /\ r.state.activeGames = activeGames
                        /\ r.emits = <<>>

\* A session joined a room that had 2 registered participants: it is in the
\* socket.io room and not among the registered.
C25_Witness ==
    \E gameId \in DOMAIN activeGames :
        /\ Len(activeGames[gameId].players) = 2
        /\ rooms[gameId] \ Range(activeGames[gameId].players) # {}
        /\ outbox = <<>>

\* C26. A disconnected session is in no room's participant list, and a room
\* is in the map exactly while one of its participants is connected.
C26_AsStated ==
    \A gameId \in GameIds :
        /\ Range(Registered(gameId)) \subseteq sockets
        /\ gameId \in DOMAIN activeGames <=>
                Range(Registered(gameId)) \cap sockets # {}

\* C27. join-game by a connected session for a room with fewer than 2
\* registered participants registers it last, replies to it alone with the
\* number of participants registered after it was added (1 in a new or
\* empty room, 2 after one), and then sends that same number as the
\* player-count to the whole room, the caller included.
C27_JoinOrdinal ==
    \A socket \in sockets, gameId \in GameIds :
        LET before == Registered(gameId)
            r == on_join_game(Server, socket, gameId)
            after == r.state.activeGames[gameId].players
        IN  Len(before) < 2 =>
                /\ after = Append(before, socket)
                /\ Len(r.emits) = 2
                /\ r.emits[1] = Emit({socket}, "game-joined",
                                     [playerNumber |-> Len(after)])
                /\ Len(after) = Len(before) + 1
                /\ r.emits[2] = Emit(rooms[gameId] \cup {socket}, "player-count",
                                     Len(after))

\* The second session of a room has just been told 2, and the room's two
\* sessions the count 2.
C27_Witness ==
    /\ Len(outbox) = 2
    /\ outbox[2].event = "player-count"
    /\ outbox[2].payload = 2
    /\ outbox[1].payload.playerNumber = 2
    /\ Cardinality(outbox[2].to) = 2

\* C28. A score-update for a room is sent to every session in the room, the
\* sender included when it is in the room; a paddle-move or ball-update is
\* sent to the sessions in the room other than the sender; none of the three
\* reaches a session that is not in the room.
C28_RelayScoping ==
    \A socket \in sockets, gameId \in GameIds, payload \in Payloads :
        LET score == on_score_update(Server, socket,
                                     [gameId |-> gameId, scores |-> payload])
            paddle == on_paddle_move(Server, socket,
                                     [gameId |-> gameId, y |-> payload])
            ball == on_ball_update(Server, socket,
                                   [gameId |-> gameId, ball |-> payload])
        IN  /\ score.emits = <<Emit(rooms[gameId], "score-sync", payload)>>
            /\ paddle.emits = <<Emit(rooms[gameId] \ {socket}, "opponent-paddle",
                                     [y |-> payload])>>
            /\ ball.emits = <<Emit(rooms[gameId] \ {socket}, "ball-sync", payload)>>
            /\ socket \notin paddle.emits[1].to
            /\ socket \notin ball.emits[1].to
            /\ score.state = Server /\ paddle.state = Server /\ ball.state = Server

\* A session of a two-session room has just moved its paddle while a third
\* session is connected outside the room: the other session alone is sent
\* the position.
C28_Witness ==
    /\ Len(outbox) = 1
    /\ outbox[1].event = "opponent-paddle"
    /\ Cardinality(outbox[1].to) = 1
    /\ \E gameId \in GameIds :
            /\ Cardinality(rooms[gameId]) = 2
            /\ outbox[1].to \subseteq rooms[gameId]
            /\ sockets \ rooms[gameId] # {}

\* C29 as stated. A game-cancelled announcement reaches only the other
\* sessions of the room of the match it names.
C29_AsStated ==
    (Len(outbox) = 1 /\ outbox[1].event = "game-cancelled") =>
        outbox[1].to \subseteq rooms[outbox[1].payload.gameId]

\* C29. A game-cancelled announcement is sent to every connected session
\* other than its sender, whatever rooms they are in, and changes nothing
\* on the server.
C29_CancelledBroadcast ==
    \A socket \in sockets, gameId \in GameIds :
        LET r == on_game_cancelled(Server, socket, [gameId |-> gameId])
        IN  /\ r.emits = <<Emit(sockets \ {socket}, "game-cancelled",
                                [gameId |-> gameId])>>
            /\ r.state = Server

\* A cancellation has just been announced to two sessions, one in the room
\* of the match and one in no room.
C29_Witness ==
    /\ Len(outbox) = 1
    /\ outbox[1].event = "game-cancelled"
    /\ Cardinality(outbox[1].to) = 2
    /\ outbox[1].to \cap rooms[outbox[1].payload.gameId] # {}
    /\ \E socket \in outbox[1].to : \A gameId \in GameIds : socket \notin rooms[gameId]

\* The views of a match whose simulation has not started: what the host
\* and what the other accounts are shown.
WaitingViews == {"WAITING FOR PLAYER", "WAITING FOR HOST", "JOIN GAME"}

\* The ledger s, had its match gameId been Active with no challenger.
ActiveWithoutChallenger(s, gameId) ==
    [s EXCEPT !.games[gameId].status = "Active",
              !.games[gameId].player = ZeroAddress]

C22_AsStated == calls <= 1

\* The component shows the match to one of its two participants.
OpenForParticipant ==
    /\ ~component.practiceMode
    /\ component.gameId = TheGame
    /\ component.account.address \in Participants(games[TheGame])

ReadOutcomes == {"Active", "Pending", "Completed", "throw"}

Increasing(waits) ==
    \A i \in 1..Len(waits), j \in 1..Len(waits) : i < j => waits[i] < waits[j]

NamesOwnAccount(data, account) ==
    /\ data.host # Undefined
    /\ data.host.address = account.address

\* C30 as stated. When the server has relayed player-joined-game, a page
\* that receives it shows the notification if and only if the host it names
\* is the page's own account, compared without regard to letter case;
\* this in both pages of the repository.
C30_AsStated ==
    (Len(outbox) = 2 /\ outbox[2].event = "player-joined-game") =>
        \A account \in Accounts :
            LET data == outbox[2].payload
                later == onPlayerJoinedGame(Home(account), data)
                earlier == onPlayerJoinedGame_Earlier(Home(account), data)
            IN  /\ later.showHostNotification <=> NamesOwnAccount(data, account)
                /\ earlier.showHostNotification <=> NamesOwnAccount(data, account)

\* C32. The fee wallet changes only in a step that is setFeeWallet called
\* by the owner with a non-zero address, which changes nothing else; every
\* setFeeWallet by another caller or with the zero address is rejected with
\* the ledger unchanged; the owner is always the deployer.
C32_FeeWalletControl ==
    /\ [][feeWallet' # feeWallet =>
            /\ feeWallet' # ZeroAddress
            /\ setFeeWallet(Ledger, owner, feeWallet').result = "ok"
            /\ Ledger' = setFeeWallet(Ledger, owner, feeWallet').state]_vars
    /\ [](\A sender \in Address, newFeeWallet \in FeeWallets :
            (sender # owner \/ newFeeWallet = ZeroAddress) =>
                Rejected(setFeeWallet(Ledger, sender, newFeeWallet)))
    /\ [](owner = Deployer)

\* The owner has moved the fee wallet away from the deployer's, and a
\* match has been completed since.
C32_Witness ==
    /\ feeWallet # Deployer
    /\ feeWallet # ZeroAddress
    /\ \E id \in Created : games[id].status = "Completed"

\* C35 as stated. For an id createGame has not allocated, joinGame,
\* cancelGame, cancelExpiredGame and completeGame are rejected with the
\* ledger unchanged, and the record under the id is the default one.
C35_AsStated ==
    \A id \in GameIds \ Created :
        /\ games[id] = NoGame
        /\ \A sender \in Users :
            /\ \A value \in Values :
                    balance[sender] >= value =>
                        Rejected(joinGame(Ledger, sender, value, id, now))
            /\ Rejected(cancelGame(Ledger, sender, id))
            /\ Rejected(cancelExpiredGame(Ledger, sender, id, now))
            /\ \A winner \in Address :
                    Rejected(completeGame(Ledger, sender, id, winner))

\* C36. Of every match, the challenger is the zero address when the match
\* is Pending or Cancelled, and when it is Active or Completed the
\* challenger is a non-zero address other than the host.
C36_ChallengerSet ==
    \A id \in Created :
        LET game == games[id]
        IN  /\ game.status \in {"Pending", "Cancelled"} => game.player = ZeroAddress
            /\ game.status \in {"Active", "Completed"} =>
                    /\ game.player # ZeroAddress
                    /\ game.player # game.host
            /\ game.status \in {"Pending", "Cancelled", "Active", "Completed"}

\* One match has been joined and completed, another cancelled.
C36_Witness ==
    /\ gameCounter = 2
    /\ \E id \in Created :
            games[id].status = "Completed" /\ games[id].player # ZeroAddress
    /\ \E id \in Created :
            games[id].status = "Cancelled" /\ games[id].player = ZeroAddress

\* The ether the ledger s is meant to hold for the matches ids.
RECURSIVE LockedIn(_, _)
LockedIn(s, ids) ==
    IF ids = {} THEN 0
    ELSE LET id == CHOOSE x \in ids : TRUE
         IN  Locked(s.games[id]) + LockedIn(s, ids \ {id})

Conserved(s) == s.contractBalance = LockedIn(s, GameIds)

\* r, the outcome of a call on match id whose recipients re-entered with
\* hook, against plain, the outcome of the same call with no re-entry.
\* A hook on match id itself is rejected, so the call ends as the plain one
\* or, when the recipient hands the rejection on, is reverted; with any hook
\* the contract holds what its matches lock, and a call that was reverted
\* left the ledger as it was.
Protected(r, plain, hook, id) ==
    /\ hook.gameId = id =>
            /\ \A i \in 1..Len(r.nested) : r.nested[i] # "ok"
            /\ r.result = "ok" => r.state = plain.state
    /\ Conserved(r.state)
    /\ r.result # "ok" => r.state = Ledger

\* C31. While cancelGame, cancelExpiredGame or completeGame on a match is
\* sending its refund, fee or payout, every call the recipient makes back
\* into the contract on that match is rejected, the match being Cancelled or
\* Completed already: the match pays out once, and after the call, with
\* re-entrant calls on any match, the contract holds exactly what its
\* matches lock.
C31_Reentrancy ==
    \A id \in Created, sender \in Users :
        /\ cancelGameRequire(games[id], sender) = "ok" =>
                \A hook \in Hooks :
                    Protected(cancelGameWith(Ledger, sender, id, hook, now),
                              cancelGame(Ledger, sender, id), hook, id)
        /\ cancelExpiredGameRequire(games[id], now) = "ok" =>
                \A hook \in Hooks :
                    Protected(cancelExpiredGameWith(Ledger, sender, id, hook, now),
                              cancelExpiredGame(Ledger, sender, id, now), hook, id)
        /\ \A winner \in Participants(games[id]) :
                completeGameRequire(games[id], sender, winner) = "ok" =>
                    \A hook \in Hooks :
                        Protected(completeGameWith(Ledger, sender, id, winner,
                                                   hook, now),
                                  completeGame(Ledger, sender, id, winner),
                                  hook, id)

\* The contract wallet hosts a Pending match while another match holds
\* ether; on its refund it calls cancelGame on the same match again and
\* catches the revert: the nested call is rejected with "Game not
\* cancellable" and the wallet is refunded once.
C31_Witness ==
    \E id \in Created, host \in Contracts :
        LET hook == [fn |-> "cancelGame", gameId |-> id, winner |-> 0,
                     value |-> 0, catches |-> TRUE]
            r == cancelGameWith(Ledger, host, id, hook, now)
        IN  /\ games[id].status = "Pending"
            /\ games[id].host = host
            /\ contractBalance >= 2 * games[id].wager
            /\ r.result = "ok"
            /\ r.nested = <<"Game not cancellable">>
            /\ r.state.balance[host] = balance[host] + games[id].wager

\* The views in which no game is being played.
IdleViews ==
    {"LOADING GAME...", "GAME NOT FOUND", "WAITING FOR PLAYER", "JOIN GAME",
     "WAITING FOR HOST", "WAITING FOR OTHER PLAYER", "PRACTICE MODE",
     "GAME OVER"}

\* C33. The score, the flag of the point being played and the timers that
\* put the ball back change only in a step taken while the game is started
\* and not over and the canvas is shown: in the loading, waiting, join and
\* game-over views no frame of the loop runs and no ball reset fires.
C33_LoopSuspended ==
    [][(\/ component'.score # component.score
        \/ component'.scoredThisFrame # component.scoredThisFrame
        \/ Len(timers') > Len(timers))
            => /\ component.gameStarted
               /\ ~component.gameOver
               /\ View(component) \notin IdleViews]_vars

\* The game-over view after points were played, and a waiting view before.
C33_Witness ==
    /\ View(component) = "GAME OVER"
    /\ component.score.left + component.score.right >= WinScore
    /\ timers = <<>>

\* The participant of the loaded match that is not the local account.
Opponent(c) ==
    IF c.gameData[1].host = c.signer THEN c.gameData[1].player
    ELSE c.gameData[1].host

\* C34. As stated: in a wagered match every pending call of complete names
\* the local account when the left side, which the local paddle defends,
\* has reached the winning score on this client's scoreboard, and the
\* opponent when the right side has; on the host's client and on the
\* challenger's.
C34_AsStated ==
    \A i \in 1..Len(timers) :
        (timers[i].run = "complete" /\ ~component.practiceMode) =>
            timers[i].winner = IF component.score.left >= WinScore
                               THEN component.signer
                               ELSE Opponent(component)

\* The component is about to submit complete for its wagered match: the
\* terminal score is on its scoreboard and the call is scheduled.
Submitting ==
    /\ ~component.practiceMode
    /\ ~development
    /\ timers # <<>>
    /\ Head(timers).run = "complete"

\* C37. As stated: a client that has reached the terminal score and submits
\* complete eventually shows its game-over screen, whether its submission
\* is the one that settles the match or the one that finds it settled.
C37_AsStated == Submitting ~> (View(component) = "GAME OVER")

\* C38. As stated: no room's participant list holds the same session twice.
C38_AsStated ==
    \A gameId \in GameIds :
        \A i, j \in 1..Len(Registered(gameId)) :
            Registered(gameId)[i] = Registered(gameId)[j] => i = j

\* What paddle-move, ball-update and score-update from socket naming gameId
\* emit.
Relayed(socket, gameId, payload) ==
    on_paddle_move(Server, socket, [gameId |-> gameId, y |-> payload]).emits
    \o on_ball_update(Server, socket, [gameId |-> gameId, ball |-> payload]).emits
    \o on_score_update(Server, socket,
                       [gameId |-> gameId, scores |-> payload]).emits

\* C39. As stated: a paddle, ball or score update naming a room reaches
\* sessions only when its sender is a registered participant of the room,
\* and reaches registered participants of the room only.
C39_AsStated ==
    \A socket \in sockets, gameId \in GameIds, payload \in Payloads :
        \A i \in 1..Len(Relayed(socket, gameId, payload)) :
            LET to == Relayed(socket, gameId, payload)[i].to
            IN  /\ to # {} => socket \in Range(Registered(gameId))
                /\ to \subseteq Range(Registered(gameId))

\* The ordinal a join-game run r told its caller; 0 when it told nothing.
Told(r) ==
    IF r.emits = <<>> THEN 0 ELSE r.emits[1].payload.playerNumber

\* C40. As stated, for the sequence the claim names: in a room that does not
\* exist yet, first joins and is told 1, second joins and is told 2, first
\* disconnects, third joins; second and third are then both registered and
\* were told different ordinals.
C40_AsStated ==
    \A gameId \in GameIds \ DOMAIN activeGames :
        \A first, second, third \in sockets :
            Cardinality({first, second, third}) = 3 =>
                LET one == on_join_game(Server, first, gameId)
                    two == on_join_game(one.state, second, gameId)
                    gone == on_disconnect(two.state, first)
                    three == on_join_game(gone.state, third, gameId)
                IN  /\ Told(one) = 1
                    /\ Told(two) = 2
                    /\ gone.state.activeGames[gameId].players = <<second>>
                    /\ three.state.activeGames[gameId].players = <<second, third>>
                    /\ Told(three) # Told(two)

====
